---------------------------- MODULE Spec2Model ----------------------------
(***************************************************************************)
(* A model of the DartConnect statistics generator's game-data fetcher     *)
(* with its file cache (src/src/url_fetcher.py), its Quality-Point         *)
(* scoring functions, and the per-player aggregation of                    *)
(* src/src/data_processor.py.                                              *)
(*                                                                         *)
(* Specifications:                                                         *)
(*   Spec       the fetcher over reliable storage: fetch_game_data,        *)
(*              clear_cache, get_cache_stats and the passing of time       *)
(*   SpecFault  the fetcher over storage whose operations can fail         *)
(*   SpecStore  the cache layer called directly: _get_cached_data,         *)
(*              _cache_data and the passing of time                        *)
(*   SpecPipe   the data processor fetching the matches of report URLs     *)
(*   SpecRun    one run of the data processor over the report URLs of a    *)
(*              file, and the Cricket QP totals it computes                *)
(*   SpecKeys   fetches of the matches of the site through the locators    *)
(*              of their pages, one of them with a referring query string  *)
(*   SpecRace   two fetches of one key at the same time, step by step      *)
(*   SpecQP     the scoring functions applied to bounded inputs            *)
(*   SpecParse  the turn-notation parser applied to bounded turn scores    *)
(*   SpecAgg    the games won and lost of a player's legs                  *)
(*   SpecStats  the stat line of a player of a team, and the rating        *)
(***************************************************************************)
EXTENDS Integers, Sequences, FiniteSets, TLC

VARIABLES
    cache,        \* the cache directory: cache file name -> cache file
    now,          \* the wall clock, in days
    cache_stats,  \* DartConnectURLFetcher.cache_stats
    last,         \* the last call made on the fetcher and what it did
    putLog,       \* history of the cache layer called directly: cache file
                  \* name -> the last _cache_data call on it
    call          \* a call of a scoring or statistics function: its arguments
                  \* and, once it has returned, its result

fetcher == <<cache, now, cache_stats, last, putLog>>

vars == <<cache, now, cache_stats, last, putLog, call>>

(***************************************************************************)
(* Bounds of the model.                                                    *)
(***************************************************************************)
\* The clock runs over 0..MaxTime days.
MaxTime == 3
\* At most MaxCalls calls of fetch_game_data are made in one session.
MaxCalls == 2

\* cache_expiry_days, a constructor argument (150 by default); the model
\* configures the fetcher with a short expiry so that entries do expire.
cache_expiry_days == 1

(***************************************************************************)
(* Values.                                                                 *)
(***************************************************************************)
\* Python's None: what fetch_game_data and _get_cached_data return when they
\* have nothing (the spec's Unavailable and Miss).
None == "None"

\* Two distinct non-empty match details (the "props" objects of two pages),
\* the empty object {}, which Python treats as false, and a non-empty object
\* whose "matchInfo" is null (or any other value without a get method).
Details == {"d1", "d2"}
EmptyDetail == "empty"
BadInfoDetail == "bad_match_info"

\* Python truthiness of a value that is None, {} or a non-empty object.
Truthy(v) == v # None /\ v # EmptyDetail

(***************************************************************************)
(* Locators.  A URL  https://<netloc>/<seg1>/<seg2>/...<tail>  is the      *)
(* record of its host, its path segments and its query/fragment tail (""   *)
(* when there is none).                                                    *)
(***************************************************************************)
Host == "recap.dartconnect.com"

Url(netloc, segs, tail) == [netloc |-> netloc, segs |-> segs, tail |-> tail]

CanonicalUrl(id)      == Url(Host, <<"games", id>>, "")
AlternateUrl(id)      == Url(Host, <<"history", "report", "match", id>>, "")
CanonicalQueryUrl(id) == Url(Host, <<"games", id>>, "?tab=1")
AlternateFragmentUrl(id) ==
    Url(Host, <<"history", "report", "match", id>>, "#top")
EmptyIdUrl            == Url(Host, <<"games", "">>, "")
WrongHostUrl          == Url("www.dartconnect.com", <<"games", "m1">>, "")
WrongShapeUrl         == Url(Host, <<"matches", "m1">>, "")
BareShapeUrl          == Url(Host, <<"games">>, "")

Locators ==
    { CanonicalUrl("m1"), CanonicalUrl("m2"), AlternateUrl("m1"),
      CanonicalQueryUrl("m1"), EmptyIdUrl,
      WrongHostUrl, WrongShapeUrl, BareShapeUrl }

\* parsed.path.startswith("/" + prefix joined by "/" + "/"): the path begins
\* with the segments of prefix and a further segment (possibly empty) follows.
PathStartsWith(segs, prefix) ==
    /\ Len(segs) > Len(prefix)
    /\ SubSeq(segs, 1, Len(prefix)) = prefix

\* len(parsed.path.split("/")): the empty string before the leading slash
\* and one element per segment.
PathSplitLen(segs) == IF segs = <<>> THEN 1 ELSE Len(segs) + 1

IsValidDartconnectUrl(url) ==
    /\ url.netloc = Host
    /\ \/ (PathStartsWith(url.segs, <<"games">>) /\ PathSplitLen(url.segs) >= 3)
       \/ (PathStartsWith(url.segs, <<"history", "report", "match">>)
             /\ PathSplitLen(url.segs) >= 5)

\* The places i where the text "/<word>/" occurs in the URL: segment i is
\* word and a segment follows it.
Occurrences(url, word) ==
    { i \in 1..(Len(url.segs) - 1) : url.segs[i] = word }

\* url.split("/<word>/")[-1].split("?")[0].split("#")[0]: the segments after
\* the last occurrence of the word, the tail cut off.
AfterLast(url, word) ==
    LET i == CHOOSE j \in Occurrences(url, word) :
                 \A h \in Occurrences(url, word) : h <= j
    IN  SubSeq(url.segs, i + 1, Len(url.segs))

\* hashlib.md5(url.encode()).hexdigest(): one digest per URL text.
Md5(url) == <<"url_md5", url.netloc>> \o url.segs \o <<url.tail>>

\* "if match_id:" is tested before the tail is cut off: the match id is
\* false in Python only when nothing at all follows the word.  Otherwise the
\* file is named after the id with its tail cut off.
IdKey(idsegs, url) ==
    IF idsegs = <<"">> /\ url.tail = "" THEN Md5(url) ELSE <<"id">> \o idsegs

\* A key derivation that knows the canonical shape only.
GetCacheFilename_GamesOnly(url) ==
    IF Occurrences(url, "games") # {}
        THEN IdKey(AfterLast(url, "games"), url)
    ELSE Md5(url)

\* A query string that names another page of the site, as a link back does.
ReferringTail == "?from=/games/m2"

ReferringUrl(id) == Url(Host, <<"games", id>>, ReferringTail)

\* "/<word>/" in the query string or fragment of the URL.
TailOccurs(tail, word) == tail = ReferringTail /\ word = "games"

\* tail.split("/<word>/")[-1].split("?")[0].split("#")[0], for a tail in
\* which the word occurs.
TailAfterLast(tail, word) == <<"m2">>

\* _get_cache_filename: the URL is searched as text, its query string and
\* fragment included, so the last "/games/" (else the last "/match/") may
\* lie in the tail.
GetCacheFilename(url) ==
    IF TailOccurs(url.tail, "games")
        THEN <<"id">> \o TailAfterLast(url.tail, "games")
    ELSE IF Occurrences(url, "games") # {}
        THEN IdKey(AfterLast(url, "games"), url)
    ELSE IF TailOccurs(url.tail, "match")
        THEN <<"id">> \o TailAfterLast(url.tail, "match")
    ELSE IF Occurrences(url, "match") # {}
        THEN IdKey(AfterLast(url, "match"), url)
    ELSE Md5(url)

(***************************************************************************)
(* The remote site.  What one HTTP GET yields: a transport failure (no      *)
(* response), or a response with an error status or a 2xx status.  The     *)
(* document of a response may carry the data-page attribute; its value is  *)
(* JSON text, entity-escaped or (wrongly) raw; the JSON may be malformed,  *)
(* an object without "props", or an object whose "props" is null, {} or a  *)
(* match detail.  An error response of the site carries a data-page        *)
(* attribute too (the props of its error page).                            *)
(***************************************************************************)
Page(status, attr, doc, props) ==
    [status |-> status, attr |-> attr, doc |-> doc, props |-> props]

FailedPages ==
    { Page("timeout", "absent", "none", None),
      Page("connection_error", "absent", "none", None),
      Page("http_error", "escaped", "props", "d1") }

BrokenPages ==
    { Page("ok", "absent", "none", None),
      Page("ok", "raw", "props", "d1"),
      Page("ok", "escaped", "malformed", None),
      Page("ok", "escaped", "noprops", None),
      Page("ok", "escaped", "props", None) }

EmptyPropsPages == { Page("ok", "escaped", "props", EmptyDetail) }

BadInfoPages == { Page("ok", "escaped", "props", BadInfoDetail) }

GoodPages == { Page("ok", "escaped", "props", d) : d \in Details }

Pages ==
    FailedPages \cup BrokenPages \cup EmptyPropsPages \cup BadInfoPages
        \cup GoodPages

\* A fetch that forgets response.raise_for_status().
RequestRaises_NoStatusCheck(page) ==
    page.status \in {"timeout", "connection_error"}

\* session.get(url, timeout) followed by response.raise_for_status(): both
\* raise requests.RequestException unless the response is a 2xx document.
RequestRaises(page) == page.status # "ok"

\* re.search(r'data-page="([^"]+)"'), html.unescape, json.loads and the
\* "props" lookup.  A raw (unescaped) JSON value ends at its first quote, so
\* the captured text is no JSON document.
ExtractGameDataFromHtml(page) ==
    IF page.attr = "absent" THEN None
    ELSE IF page.attr = "raw" THEN None
    ELSE IF page.doc = "malformed" THEN None
    ELSE IF page.doc = "props" THEN page.props
    ELSE None

(***************************************************************************)
(* The cache directory.  A cache file holds the JSON entry written by      *)
(* _cache_data ("url", "game_data"; "cached_at" is the time of the write,   *)
(* as the modification time is) and has a modification time; a file whose  *)
(* write was cut short holds no JSON document.                             *)
(***************************************************************************)
Corrupt == "corrupt"

Entry(url, t, d) == [url |-> url, game_data |-> d, mtime |-> t]

\* Storage faults one call can meet: stat() or open-for-read failing,
\* unlink() failing, open-for-write failing, the write being cut short.
IOFaults == {"none", "read", "unlink", "open", "dump"}

Remove(c, k) == [j \in DOMAIN c \ {k} |-> c[j]]

Store(c, k, e) == [j \in DOMAIN c \cup {k} |-> IF j = k THEN e ELSE c[j]]

Bump(st, field) == [st EXCEPT ![field] = @ + 1]

\* An expiry test that lets no entry expire.
IsExpired_Never(e, t) == FALSE

\* An expiry test that already fails at exactly the expiry age.
IsExpired_AtTTL(e, t) == t - e.mtime >= cache_expiry_days

\* file_age > timedelta(days=self.cache_expiry_days)
IsExpired(e, t) == t - e.mtime > cache_expiry_days

\* A lookup without its except clause: the error of a failed read comes out
\* of it as its value.
GetCachedData_ReadFatal(c, st, t, url, io) ==
    LET k == GetCacheFilename(url) IN
    IF k \notin DOMAIN c
        THEN [ret |-> None, cache |-> c, stats |-> st]
    ELSE IF io = "read"
        THEN [ret |-> "OSError", cache |-> c, stats |-> st]
    ELSE IF IsExpired(c[k], t)
        THEN [ret |-> None, cache |-> Remove(c, k), stats |-> Bump(st, "expired")]
    ELSE [ret |-> c[k].game_data, cache |-> c, stats |-> st]

\* A lookup that counts an expired file but leaves it in place.
GetCachedData_KeepsExpired(c, st, t, url, io) ==
    LET k == GetCacheFilename(url) IN
    IF k \notin DOMAIN c
        THEN [ret |-> None, cache |-> c, stats |-> st]
    ELSE IF IsExpired(c[k], t)
        THEN [ret |-> None, cache |-> c, stats |-> Bump(st, "expired")]
    ELSE [ret |-> c[k].game_data, cache |-> c, stats |-> st]

\* _get_cached_data: the value returned, the directory and the counters
\* after the call.
GetCachedData(c, st, t, url, io) ==
    LET k == GetCacheFilename(url) IN
    IF k \notin DOMAIN c
        THEN [ret |-> None, cache |-> c, stats |-> st]
    ELSE IF io = "read"
        THEN [ret |-> None, cache |-> c, stats |-> st]
    ELSE IF IsExpired(c[k], t)
        THEN IF io = "unlink"
                THEN [ret |-> None, cache |-> c, stats |-> Bump(st, "expired")]
                ELSE [ret |-> None, cache |-> Remove(c, k),
                      stats |-> Bump(st, "expired")]
    ELSE IF c[k].game_data = Corrupt
        THEN [ret |-> None, cache |-> c, stats |-> st]
    ELSE [ret |-> c[k].game_data, cache |-> c, stats |-> st]

\* A writer that names the file after the URL hash, not as the reader does.
CacheData_HashedName(c, t, url, game_data, io) ==
    Store(c, Md5(url), Entry(url, t, game_data))

\* _cache_data: the directory after the call.
CacheData(c, t, url, game_data, io) ==
    LET k == GetCacheFilename(url) IN
    IF io = "open" THEN c
    ELSE IF io = "dump" THEN Store(c, k, Entry(url, t, Corrupt))
    ELSE Store(c, k, Entry(url, t, game_data))

(***************************************************************************)
(* The record of the last call: which operation, on which locator, with    *)
(* which argument, what the remote site served, the storage fault met,     *)
(* what the cache lookup returned, what the call returned, whether an HTTP *)
(* GET was made and to which URL, and when; for clear_cache its threshold  *)
(* and the number it returned.                                             *)
(***************************************************************************)
NoUrl == Url("", <<>>, "")
NoPage == Page("none", "absent", "none", None)

ZeroStats == [hits |-> 0, misses |-> 0, expired |-> 0, new_fetches |-> 0]

\* older_than_days=None, the default of clear_cache.
NoThreshold == -1

NoCall ==
    [op |-> "none", url |-> NoUrl, arg |-> None, page |-> NoPage,
     io |-> "none", got |-> None, result |-> None, net |-> 0,
     geturl |-> NoUrl, at |-> 0, count |-> 0, stats |-> ZeroStats,
     older |-> NoThreshold]

\* A call of fetch_game_data that made no HTTP GET, and one that made it.
FetchCall(url, io, got, result, t) ==
    [NoCall EXCEPT !.op = "fetch", !.url = url, !.io = io, !.got = got,
                   !.result = result, !.at = t]

\* A call that makes its HTTP GET a second time when the first one failed.
FetchCallNet_Retried(url, page, io, result, t) ==
    [NoCall EXCEPT !.op = "fetch", !.url = url, !.io = io, !.page = page,
                   !.result = result, !.geturl = url, !.at = t,
                   !.net = IF page.status = "ok" THEN 1 ELSE 2]

FetchCallNet(url, page, io, result, t) ==
    [NoCall EXCEPT !.op = "fetch", !.url = url, !.io = io, !.page = page,
                   !.result = result, !.net = 1, !.geturl = url, !.at = t]

InitFetcher ==
    /\ cache = <<>>
    /\ now = 0
    /\ cache_stats = ZeroStats
    /\ last = NoCall
    /\ putLog = <<>>

Init ==
    /\ InitFetcher
    /\ call = [fn |-> "none"]

\* The history of direct _cache_data calls after one more of them: the value
\* and the time of the call, and whether it found a file to overwrite.
Logged(log, c, url, t, d) ==
    Store(log, GetCacheFilename(url),
          [game_data |-> d, at |-> t, over |-> GetCacheFilename(url) \in DOMAIN c])

\* match_id = game_data.get("matchInfo", {}).get("id", "unknown"), evaluated
\* for the log line: raises AttributeError when "matchInfo" has no get.
MatchInfoRaises(game_data) == game_data = BadInfoDetail

(***************************************************************************)
(* fetch_game_data(url), the remote site serving page on a GET and the     *)
(* storage meeting fault io.                                               *)
(***************************************************************************)
FetchGameDataCall(url, page, io) ==
    /\ cache_stats.hits + cache_stats.misses < MaxCalls
    /\ UNCHANGED now
    /\ IF ~IsValidDartconnectUrl(url)
       THEN /\ last' = FetchCall(url, io, None, None, now)
            /\ UNCHANGED <<cache, cache_stats, putLog>>
       ELSE
        LET got == GetCachedData(cache, cache_stats, now, url, io) IN
        IF got.ret # None
        THEN /\ cache' = got.cache
             /\ cache_stats' = Bump(got.stats, "hits")
             /\ last' = FetchCall(url, io, got.ret,
                           IF MatchInfoRaises(got.ret) THEN None ELSE got.ret,
                           now)
             /\ UNCHANGED putLog
        ELSE
         LET missed == Bump(got.stats, "misses")
             game_data == ExtractGameDataFromHtml(page) IN
         IF RequestRaises(page) \/ ~Truthy(game_data)
                \/ MatchInfoRaises(game_data)
         THEN /\ cache' = got.cache
              /\ cache_stats' = missed
              /\ last' = FetchCallNet(url, page, io, None, now)
              /\ UNCHANGED putLog
         ELSE /\ cache' = CacheData(got.cache, now, url, game_data, io)
              /\ cache_stats' = Bump(missed, "new_fetches")
              /\ last' = FetchCallNet(url, page, io, game_data, now)
              /\ UNCHANGED putLog

\* fetch_game_data called on the fetcher alone.
FetchGameData(url, page, io) ==
    /\ FetchGameDataCall(url, page, io)
    /\ UNCHANGED call

\* clear_cache(older_than_days): older is a number of days, or NoThreshold
\* for older_than_days=None.  The files unlinked: all of them, or those with
\* file_time < now - older_than_days.
\* A clear that takes the files of exactly the threshold age too.
ToClear_AtThreshold(c, t, older) ==
    IF older = NoThreshold THEN DOMAIN c
    ELSE { k \in DOMAIN c : c[k].mtime <= t - older }

ToClear(c, t, older) ==
    IF older = NoThreshold THEN DOMAIN c
    ELSE { k \in DOMAIN c : c[k].mtime < t - older }

\* A clear that starts the session counters again.
ClearCache_ResetsStats(older) ==
    LET gone == ToClear(cache, now, older) IN
    /\ cache' = [k \in DOMAIN cache \ gone |-> cache[k]]
    /\ cache_stats' = ZeroStats
    /\ last' = [NoCall EXCEPT !.op = "clear", !.at = now, !.older = older,
                              !.count = Cardinality(gone)]
    /\ UNCHANGED <<now, putLog, call>>

ClearCache(older) ==
    LET gone == ToClear(cache, now, older) IN
    /\ cache' = [k \in DOMAIN cache \ gone |-> cache[k]]
    /\ last' = [NoCall EXCEPT !.op = "clear", !.at = now, !.older = older,
                              !.count = Cardinality(gone)]
    /\ UNCHANGED <<now, cache_stats, putLog, call>>

\* get_cache_stats(): a copy of the counters.
GetCacheStats ==
    /\ last' = [NoCall EXCEPT !.op = "stats", !.at = now, !.stats = cache_stats]
    /\ UNCHANGED <<cache, now, cache_stats, putLog, call>>

\* A day passes.
Tick ==
    /\ now < MaxTime
    /\ now' = now + 1
    /\ UNCHANGED <<cache, cache_stats, last, putLog, call>>

Fetch == \E url \in Locators, page \in Pages : FetchGameData(url, page, "none")

Clear == \E older \in {NoThreshold} \cup 0..MaxTime : ClearCache(older)

Next == Fetch \/ Clear \/ GetCacheStats \/ Tick

Spec == Init /\ [][Next]_vars

(***************************************************************************)
(* The fetcher over storage that can fail.                                 *)
(***************************************************************************)
\* clear_cache(older_than_days) when stat() or unlink() raises for the files
\* in failing: the loop logs a warning for each and goes on, and they are
\* neither removed nor counted.
ClearCacheFaulty(older, failing) ==
    LET gone == ToClear(cache, now, older) \ failing IN
    /\ cache' = [k \in DOMAIN cache \ gone |-> cache[k]]
    /\ last' = [NoCall EXCEPT !.op = "clear", !.at = now, !.older = older,
                              !.count = Cardinality(gone),
                              !.io = IF failing = {} THEN "none" ELSE "unlink"]
    /\ UNCHANGED <<now, cache_stats, putLog, call>>

\* The locators fetched and what the site serves.
FaultLocators == { CanonicalUrl("m1"), CanonicalUrl("m2") }

FaultPages ==
    { Page("ok", "escaped", "props", "d1"), Page("timeout", "absent", "none", None) }

FetchFaulty ==
    \E url \in FaultLocators, page \in FaultPages, io \in IOFaults :
        FetchGameData(url, page, io)

ClearFaulty ==
    \E older \in {NoThreshold, cache_expiry_days}, failing \in SUBSET DOMAIN cache :
        ClearCacheFaulty(older, failing)

NextFault == FetchFaulty \/ ClearFaulty \/ Tick

SpecFault == Init /\ [][NextFault]_vars

(***************************************************************************)
(* The cache layer called directly.                                        *)
(***************************************************************************)
\* The locators and the values the cache layer is called with.
StoreLocators ==
    { CanonicalUrl("m1"), AlternateUrl("m1"), CanonicalQueryUrl("m1"),
      AlternateFragmentUrl("m1"), CanonicalUrl("m2") }

StoreDetails == Details \cup {EmptyDetail}

\* _get_cached_data(url)
CacheGet(url) ==
    LET got == GetCachedData(cache, cache_stats, now, url, "none") IN
    /\ cache' = got.cache
    /\ cache_stats' = got.stats
    /\ last' = [NoCall EXCEPT !.op = "get", !.url = url, !.got = got.ret,
                              !.result = got.ret, !.at = now]
    /\ UNCHANGED <<now, putLog, call>>

\* _cache_data(url, game_data)
CachePut(url, game_data) ==
    /\ cache' = CacheData(cache, now, url, game_data, "none")
    /\ last' = [NoCall EXCEPT !.op = "put", !.url = url, !.arg = game_data,
                              !.at = now]
    /\ putLog' = Logged(putLog, cache, url, now, game_data)
    /\ UNCHANGED <<now, cache_stats, call>>

Get == \E url \in StoreLocators : CacheGet(url)

Put == \E url \in StoreLocators, d \in StoreDetails : CachePut(url, d)

NextStore == Get \/ Put \/ Tick

SpecStore == Init /\ [][NextStore]_vars

(***************************************************************************)
(* The data processor fetching the match of one report URL: one turn of    *)
(* the loop of _process_dartconnect_urls.                                  *)
(***************************************************************************)
\* The places where the text "/history/report/match/" occurs in the URL.
ReportPrefixAt(url) ==
    { i \in 1..(Len(url.segs) - 3) :
          SubSeq(url.segs, i, i + 2) = <<"history", "report", "match">> }

ConvertToGameUrl_Unchanged(report_url) == report_url

\* _convert_to_game_url: "https://recap.dartconnect.com/games/" followed by
\* all that follows the last "/history/report/match/".
ConvertToGameUrl(report_url) ==
    IF ReportPrefixAt(report_url) # {}
    THEN LET i == CHOOSE j \in ReportPrefixAt(report_url) :
                      \A h \in ReportPrefixAt(report_url) : h <= j
         IN  Url(Host,
                 <<"games">> \o SubSeq(report_url.segs, i + 3, Len(report_url.segs)),
                 report_url.tail)
    ELSE report_url

\* The values of the report_url column.
ReportUrls ==
    { AlternateUrl("m1"), AlternateUrl("m2"), AlternateFragmentUrl("m1"),
      CanonicalUrl("m1"), WrongShapeUrl }

\* game_url = self._convert_to_game_url(url);
\* game_data = self.url_fetcher.fetch_game_data(game_url)
ProcessUrl(url, page) ==
    /\ FetchGameDataCall(ConvertToGameUrl(url), page, "none")
    /\ call' = [fn |-> "process_url", report_url |-> url,
                game_url |-> ConvertToGameUrl(url)]

Process == \E url \in ReportUrls, page \in Pages : ProcessUrl(url, page)

NextPipe == Process \/ Tick

SpecPipe == Init /\ [][NextPipe]_vars

(***************************************************************************)
(* Text.  A Python string is the sequence of its characters.               *)
(***************************************************************************)
StartsWith(s, pre) == Len(s) >= Len(pre) /\ SubSeq(s, 1, Len(pre)) = pre

\* sub in s
Contains(s, sub) ==
    \E i \in 1..(Len(s) - Len(sub) + 1) : SubSeq(s, i, i + Len(sub) - 1) = sub

\* s.split(sep), sep one character
RECURSIVE SplitOn(_, _)
SplitOn(s, sep) ==
    IF \A i \in 1..Len(s) : s[i] # sep THEN <<s>>
    ELSE LET i == CHOOSE j \in 1..Len(s) :
                     s[j] = sep /\ \A h \in 1..(j - 1) : s[h] # sep
         IN  <<SubSeq(s, 1, i - 1)>> \o SplitOn(SubSeq(s, i + 1, Len(s)), sep)

\* s.strip()
RECURSIVE Strip(_)
Strip(s) ==
    IF s = <<>> THEN s
    ELSE IF Head(s) = " " THEN Strip(Tail(s))
    ELSE IF s[Len(s)] = " " THEN Strip(SubSeq(s, 1, Len(s) - 1))
    ELSE s

Digits == <<"0", "1", "2", "3", "4", "5", "6", "7", "8", "9">>

IsDigit(c) == \E i \in 1..Len(Digits) : Digits[i] = c

DigitValue(c) == (CHOOSE i \in 1..Len(Digits) : Digits[i] = c) - 1

RECURSIVE Decimal(_)
Decimal(s) ==
    IF s = <<>> THEN 0
    ELSE Decimal(SubSeq(s, 1, Len(s) - 1)) * 10 + DigitValue(s[Len(s)])

\* int(text): surrounding blanks and one sign are allowed; anything else
\* than decimal digits raises ValueError.
IntOf(text) ==
    LET t == Strip(text)
        signed == t # <<>> /\ Head(t) \in {"+", "-"}
        digits == IF signed THEN Tail(t) ELSE t
    IN  IF digits = <<>> \/ \E i \in 1..Len(digits) : ~IsDigit(digits[i])
        THEN [ok |-> FALSE, v |-> 0]
        ELSE [ok |-> TRUE,
              v |-> IF signed /\ Head(t) = "-" THEN 0 - Decimal(digits)
                    ELSE Decimal(digits)]

(***************************************************************************)
(* _parse_cricket_turn                                                     *)
(***************************************************************************)
CricketNumbers ==
    { <<"1", "5">>, <<"1", "6">>, <<"1", "7">>, <<"1", "8">>, <<"1", "9">>,
      <<"2", "0">> }

Multiplier_Ignored(dart) == 1

\* The xN multiplier of one dart: int(dart.split("x")[1]), 1 when there is
\* no "x" or int raises.
Multiplier(dart) ==
    IF Contains(dart, <<"x">>)
    THEN LET n == IntOf(SplitOn(dart, "x")[2]) IN IF n.ok THEN n.v ELSE 1
    ELSE 1

IsBullDart(dart) ==
    \/ StartsWith(dart, <<"S", "B">>)
    \/ StartsWith(dart, <<"D", "B">>)
    \/ StartsWith(dart, <<"B">>)

DartBulls(dart) ==
    IF StartsWith(dart, <<"S", "B">>) THEN 1 * Multiplier(dart)
    ELSE IF StartsWith(dart, <<"D", "B">>) THEN 2 * Multiplier(dart)
    ELSE IF StartsWith(dart, <<"B">>) THEN 1 * Multiplier(dart)
    ELSE 0

DartMarks_SingleTwice(dart) ==
    IF IsBullDart(dart) THEN 0
    ELSE IF \E num \in CricketNumbers : Contains(dart, num)
    THEN IF StartsWith(dart, <<"T">>) THEN 3 * Multiplier(dart)
         ELSE IF StartsWith(dart, <<"D">>) THEN 2 * Multiplier(dart)
         ELSE IF StartsWith(dart, <<"S">>) THEN 2 * Multiplier(dart)
         ELSE 0
    ELSE 0

DartMarks(dart) ==
    IF IsBullDart(dart) THEN 0
    ELSE IF \E num \in CricketNumbers : Contains(dart, num)
    THEN IF StartsWith(dart, <<"T">>) THEN 3 * Multiplier(dart)
         ELSE IF StartsWith(dart, <<"D">>) THEN 2 * Multiplier(dart)
         ELSE IF StartsWith(dart, <<"S">>) THEN 1 * Multiplier(dart)
         ELSE 0
    ELSE 0

RECURSIVE SumDarts(_, _)
SumDarts(darts, i) ==
    IF i > Len(darts) THEN [marks |-> 0, bulls |-> 0]
    ELSE LET rest == SumDarts(darts, i + 1)
             dart == Strip(darts[i])
         IN  [marks |-> DartMarks(dart) + rest.marks,
              bulls |-> DartBulls(dart) + rest.bulls]

ParseCricketTurn(turn_score) ==
    IF turn_score = <<>> THEN [marks |-> 0, bulls |-> 0]
    ELSE SumDarts(SplitOn(turn_score, ","), 1)

(***************************************************************************)
(* _calculate_turn_qp                                                      *)
(***************************************************************************)
CalculateTurnQP_FiveMarksNothing(marks, bulls) ==
    IF marks >= 9 \/ bulls >= 6 \/ (marks >= 3 /\ bulls >= 4)
       \/ (marks >= 6 /\ bulls >= 2)
    THEN 5
    ELSE IF marks >= 8 \/ bulls >= 5 \/ (marks >= 2 /\ bulls >= 4)
            \/ (marks >= 3 /\ bulls >= 3) \/ (marks >= 5 /\ bulls >= 2)
            \/ (marks >= 6 /\ bulls >= 1)
    THEN 4
    ELSE IF marks >= 7 \/ bulls >= 4 \/ (marks >= 2 /\ bulls >= 3)
            \/ (marks >= 4 /\ bulls >= 2) \/ (marks >= 5 /\ bulls >= 1)
    THEN 3
    ELSE IF marks >= 6 \/ bulls >= 3 \/ (marks >= 3 /\ bulls >= 2)
            \/ (marks >= 4 /\ bulls >= 1)
    THEN 2
    ELSE IF (marks >= 3 /\ bulls >= 1) \/ (marks >= 2 /\ bulls >= 2)
    THEN 1
    ELSE 0

CalculateTurnQP(marks, bulls) ==
    IF \/ marks >= 9
       \/ bulls >= 6
       \/ (marks >= 3 /\ bulls >= 4)
       \/ (marks >= 6 /\ bulls >= 2)
    THEN 5
    ELSE IF \/ marks >= 8
            \/ bulls >= 5
            \/ (marks >= 2 /\ bulls >= 4)
            \/ (marks >= 3 /\ bulls >= 3)
            \/ (marks >= 5 /\ bulls >= 2)
            \/ (marks >= 6 /\ bulls >= 1)
    THEN 4
    ELSE IF \/ marks >= 7
            \/ bulls >= 4
            \/ (marks >= 1 /\ bulls >= 4)
            \/ (marks >= 2 /\ bulls >= 3)
            \/ (marks >= 4 /\ bulls >= 2)
            \/ (marks >= 5 /\ bulls >= 1)
    THEN 3
    ELSE IF \/ marks >= 6
            \/ bulls >= 3
            \/ (marks >= 1 /\ bulls >= 3)
            \/ (marks >= 3 /\ bulls >= 2)
            \/ (marks >= 4 /\ bulls >= 1)
    THEN 2
    ELSE IF marks >= 5 \/ (marks >= 3 /\ bulls >= 1) \/ (marks >= 2 /\ bulls >= 2)
    THEN 1
    ELSE 0

(***************************************************************************)
(* 501 Quality Points.  A score is a cell: a number, or no value (None in  *)
(* calculate_501_qp, NaN in a CSV column), or text that is no number.      *)
(***************************************************************************)
Num(v) == [kind |-> "num", v |-> v]
Absent == [kind |-> "absent", v |-> 0]
TextCell == [kind |-> "text", v |-> 0]

TotalScoreQP_LateThird(score) ==
    IF 164 <= score /\ score <= 180 THEN 5
    ELSE IF 148 <= score /\ score <= 163 THEN 4
    ELSE IF 133 <= score /\ score <= 147 THEN 3
    ELSE IF 116 <= score /\ score <= 132 THEN 2
    ELSE IF 95 <= score /\ score <= 115 THEN 1
    ELSE 0

\* The two if/elif ladders, shared by calculate_501_qp and
\* _calculate_501_qps_from_csv.
TotalScoreQP(score) ==
    IF 164 <= score /\ score <= 180 THEN 5
    ELSE IF 148 <= score /\ score <= 163 THEN 4
    ELSE IF 132 <= score /\ score <= 147 THEN 3
    ELSE IF 116 <= score /\ score <= 131 THEN 2
    ELSE IF 95 <= score /\ score <= 115 THEN 1
    ELSE 0

CheckoutQP(score) ==
    IF 151 <= score /\ score <= 170 THEN 5
    ELSE IF 129 <= score /\ score <= 150 THEN 4
    ELSE IF 107 <= score /\ score <= 128 THEN 3
    ELSE IF 85 <= score /\ score <= 106 THEN 2
    ELSE IF 61 <= score /\ score <= 84 THEN 1
    ELSE 0

\* calculate_501_qp(total_score, checkout_score): comparing None or text
\* with a number raises TypeError, and the except clause returns 0.
Calculate501QP(total_score, checkout_score) ==
    IF total_score.kind # "num" THEN 0
    ELSE IF checkout_score.kind = "absent" THEN TotalScoreQP(total_score.v)
    ELSE IF checkout_score.kind # "num" THEN 0
    ELSE TotalScoreQP(total_score.v) + CheckoutQP(checkout_score.v)

\* One row of _calculate_501_qps_from_csv: pd.notna, then float(), whose
\* ValueError is passed over.
Csv501LegQP(row) ==
    (IF row.hi_turn.kind = "num" THEN TotalScoreQP(row.hi_turn.v) ELSE 0)
    + (IF row.do_score.kind = "num" THEN CheckoutQP(row.do_score.v) ELSE 0)

RECURSIVE Csv501Sum(_, _)
Csv501Sum(rows, i) ==
    IF i > Len(rows) THEN 0
    ELSE (IF rows[i].game_name = "501 SIDO" THEN Csv501LegQP(rows[i]) ELSE 0)
         + Csv501Sum(rows, i + 1)

Calculate501QpsFromCsv(player_df) == Csv501Sum(player_df, 1)

(***************************************************************************)
(* _parse_cricket_game and calculate_cricket_qp.  A game is the sequence   *)
(* of its turns; a turn has a home and an away side, each the player who   *)
(* threw (name "" when the side is empty or unnamed) and the turn score.   *)
(***************************************************************************)
Side(name, turn_score) == [name |-> name, turn_score |-> turn_score]
NoSide == Side("", <<>>)

\* The player_data visited by the two loops, in order.
RECURSIVE Throws(_, _)
Throws(turns, i) ==
    IF i > Len(turns) THEN <<>>
    ELSE <<turns[i].home, turns[i].away>> \o Throws(turns, i + 1)

Better_Summed(max_qp, turn_qp) == max_qp + turn_qp

\* "if turn_qp > players[name]['max_qp']": the running maximum.
Better(max_qp, turn_qp) == IF turn_qp > max_qp THEN turn_qp ELSE max_qp

\* players after the first n throws
RECURSIVE PlayersAfter(_, _)
PlayersAfter(throws, n) ==
    IF n = 0 THEN <<>>
    ELSE LET before == PlayersAfter(throws, n - 1)
             pd == throws[n]
             turn == ParseCricketTurn(pd.turn_score)
             seen == IF pd.name \in DOMAIN before THEN before[pd.name]
                     ELSE [name |-> pd.name, turn_data |-> <<>>, max_qp |-> 0]
         IN  IF pd.name = "" THEN before
             ELSE Store(before, pd.name,
                        [name |-> pd.name,
                         turn_data |-> Append(seen.turn_data, turn),
                         max_qp |-> Better(seen.max_qp,
                                       CalculateTurnQP(turn.marks, turn.bulls))])

\* The game info returned (found FALSE for the None returned when the game
\* has no turns).
ParseCricketGame(turns) ==
    IF turns = <<>> THEN [found |-> FALSE, players |-> <<>>]
    ELSE [found |-> TRUE,
          players |-> PlayersAfter(Throws(turns, 1), 2 * Len(turns))]

\* calculate_cricket_qp(player_stats)
CalculateCricketQP(player_stats) == player_stats.max_qp

(***************************************************************************)
(* The scoring functions applied.                                          *)
(***************************************************************************)
\* Bounds of the inputs.
MaxMarks == 10
MaxBulls == 7
MaxScore == 185
MaxTurns == 2

\* The calls made: each is a function and its arguments.
TurnQPCalls ==
    { [fn |-> "turn_qp", marks |-> m, bulls |-> b] :
          m \in 0..MaxMarks, b \in 0..MaxBulls }

Scores == { Num(v) : v \in 0..MaxScore }

Leg501Calls ==
    { [fn |-> "501", total_score |-> total, checkout_score |-> checkout] :
          total \in Scores \cup {Absent}, checkout \in Scores \cup {Absent} }

\* CSV rows of one player: game name, "Hi Turn" and "DO".
CsvRow(game_name, hi_turn, do_score) ==
    [game_name |-> game_name, hi_turn |-> hi_turn, do_score |-> do_score]

SomeCells == {Absent, TextCell, Num(60), Num(94), Num(132), Num(181)}

SomeRows ==
    { CsvRow(g, h, d) : g \in {"501 SIDO", "Cricket"}, h \in SomeCells,
                        d \in SomeCells }

Csv501Calls ==
    { [fn |-> "csv501", player_df |-> <<CsvRow("501 SIDO", total, checkout)>>] :
          total \in Scores, checkout \in SomeCells }
    \cup { [fn |-> "csv501", player_df |-> <<CsvRow("501 SIDO", total, checkout)>>] :
               total \in SomeCells, checkout \in Scores }
    \cup { [fn |-> "csv501", player_df |-> <<r1, r2>>] :
               r1 \in SomeRows, r2 \in SomeRows }

\* Turn scores "", "S20", "T20,D20" and "T20,T19,S18".
TurnScores ==
    { <<>>,
      <<"S", "2", "0">>,
      <<"T", "2", "0", ",", "D", "2", "0">>,
      <<"T", "2", "0", ",", "T", "1", "9", ",", "S", "1", "8">> }

HomeSides == {NoSide} \cup { Side(n, t) : n \in {"Ann", "Cat"}, t \in TurnScores }
AwaySides == {NoSide} \cup { Side("Bob", t) : t \in TurnScores }

GameTurns == [home : HomeSides, away : AwaySides]

Games == UNION { [1..n -> GameTurns] : n \in 0..MaxTurns }

CricketGameCalls == { [fn |-> "cricket_game", turns |-> turns] : turns \in Games }

\* A call has returned when it carries its result.
Returned(c) == "out" \in DOMAIN c

InitQP ==
    /\ InitFetcher
    /\ call \in TurnQPCalls \cup Leg501Calls \cup Csv501Calls \cup CricketGameCalls

TurnQP ==
    /\ call.fn = "turn_qp" /\ ~Returned(call)
    /\ call' = [fn |-> "turn_qp", marks |-> call.marks, bulls |-> call.bulls,
              out |-> CalculateTurnQP(call.marks, call.bulls)]
    /\ UNCHANGED fetcher

Leg501 ==
    /\ call.fn = "501" /\ ~Returned(call)
    /\ call' = [fn |-> "501", total_score |-> call.total_score,
              checkout_score |-> call.checkout_score,
              out |-> Calculate501QP(call.total_score, call.checkout_score)]
    /\ UNCHANGED fetcher

Csv501 ==
    /\ call.fn = "csv501" /\ ~Returned(call)
    /\ call' = [fn |-> "csv501", player_df |-> call.player_df,
              out |-> Calculate501QpsFromCsv(call.player_df)]
    /\ UNCHANGED fetcher

CricketGame ==
    /\ call.fn = "cricket_game" /\ ~Returned(call)
    /\ call' = [fn |-> "cricket_game", turns |-> call.turns,
              out |-> ParseCricketGame(call.turns)]
    /\ UNCHANGED fetcher

NextQP == TurnQP \/ Leg501 \/ Csv501 \/ CricketGame

SpecQP == InitQP /\ [][NextQP]_vars

(***************************************************************************)
(* _parse_cricket_turn applied to turn scores written from darts: a dart   *)
(* is a head (a bull, or a ring and a number) and a suffix.                *)
(***************************************************************************)
\* Bound of the input.
MaxDarts == 2

BullHeads == { <<"S", "B">>, <<"D", "B">>, <<"B">> }

SomeNumbers == { <<"1", "5">>, <<"1", "9">>, <<"2", "0">> }

RingHeads == { <<r>> \o n : r \in {"S", "D", "T"}, n \in SomeNumbers }

\* No suffix, x2, x3 and the suffix xa that is no integer.
Suffixes == { <<>>, <<"x", "2">>, <<"x", "3">>, <<"x", "a">> }

Dart(head, suffix) == [head |-> head, suffix |-> suffix]

Darts == { Dart(h, s) : h \in BullHeads \cup RingHeads, s \in Suffixes }

\* The turn score of a sequence of darts: the darts joined by commas.
RECURSIVE TurnScoreOf(_)
TurnScoreOf(darts) ==
    IF darts = <<>> THEN <<>>
    ELSE IF Len(darts) = 1 THEN darts[1].head \o darts[1].suffix
    ELSE darts[1].head \o darts[1].suffix \o <<",">> \o TurnScoreOf(Tail(darts))

\* "T20,S19,DB"
ExampleDarts ==
    << Dart(<<"T", "2", "0">>, <<>>), Dart(<<"S", "1", "9">>, <<>>),
       Dart(<<"D", "B">>, <<>>) >>

ParseTurnCalls ==
    { [fn |-> "parse_turn", darts |-> d, turn_score |-> TurnScoreOf(d)] :
          d \in UNION { [1..n -> Darts] : n \in 0..MaxDarts } \cup {ExampleDarts} }
    \cup { [fn |-> "parse_turn", darts |-> <<>>, turn_score |-> blank] :
               blank \in { <<" ">>, <<" ", " ">> } }

\* Tokens that are no darts of the notation: a ring with a number outside
\* 15..20 ("S14", "D3", "S120"), a number without ring ("20"), and words
\* ("MISS", "BUST"); with no suffix, x2 or x20.
OtherHeads ==
    { <<"S", "1", "4">>, <<"D", "3">>, <<"S", "1", "2", "0">>, <<"2", "0">>,
      <<"M", "I", "S", "S">>, <<"B", "U", "S", "T">> }

OtherSuffixes == { <<>>, <<"x", "2">>, <<"x", "2", "0">> }

OtherDarts == { Dart(h, s) : h \in OtherHeads, s \in OtherSuffixes }

\* Turn scores of such tokens, alone or with the darts "T20" and "SB".
ParseTextCalls ==
    { [fn |-> "parse_text", darts |-> d, turn_score |-> TurnScoreOf(d)] :
          d \in { t \in UNION { [1..n -> OtherDarts
                                          \cup { Dart(<<"T", "2", "0">>, <<>>),
                                                 Dart(<<"S", "B">>, <<>>) }] :
                                    n \in 1..MaxDarts } :
                      \E i \in DOMAIN t : t[i] \in OtherDarts } }

InitParse ==
    /\ InitFetcher
    /\ call \in ParseTurnCalls \cup ParseTextCalls

ParseTurn ==
    /\ call.fn = "parse_turn" /\ ~Returned(call)
    /\ call' = [fn |-> "parse_turn", darts |-> call.darts,
                turn_score |-> call.turn_score,
                out |-> ParseCricketTurn(call.turn_score)]
    /\ UNCHANGED fetcher

ParseText ==
    /\ call.fn = "parse_text" /\ ~Returned(call)
    /\ call' = [fn |-> "parse_text", darts |-> call.darts,
                turn_score |-> call.turn_score,
                out |-> ParseCricketTurn(call.turn_score)]
    /\ UNCHANGED fetcher

NextParse == ParseTurn \/ ParseText

SpecParse == InitParse /\ [][NextParse]_vars

(***************************************************************************)
(* The statistics of one player (data_processor.py).  player_df is the     *)
(* player's legs, one row each, and whether the frame has the "report_url" *)
(* and "Set #" columns.  A cell of a text or key column is its text, or    *)
(* NaN when the CSV cell is empty.                                         *)
(***************************************************************************)
NaN == "NaN"

LegRow(report_url, set_no, game_name, pf, win) ==
    [report_url |-> report_url, set_no |-> set_no, game_name |-> game_name,
     pf |-> pf, win |-> win]

Frame(has_set_columns, rows) == [has_set_columns |-> has_set_columns, rows |-> rows]

\* player_df[col].unique()
Unique(rows, col) == { rows[i][col] : i \in DOMAIN rows }

\* player_df[(game_name == game_type) & (PF == pf)]; NaN equals nothing.
GameDf(rows, game_type, pf) ==
    SelectSeq(rows, LAMBDA r : /\ game_type # NaN /\ r.game_name = game_type
                               /\ pf # NaN /\ r.pf = pf)

\* The keys of groupby(['report_url', 'Set #']), which drops NaN keys.
GroupKeys(rows) ==
    { <<rows[i].report_url, rows[i].set_no>> :
          i \in { j \in DOMAIN rows : /\ rows[j].report_url # NaN
                                      /\ rows[j].set_no # NaN } }

\* set_data of one group
SetData(rows, key) ==
    SelectSeq(rows, LAMBDA r : r.report_url = key[1] /\ r.set_no = key[2])

\* (set_data['win'] == w).sum()
CountWin(rows, w) == Cardinality({ i \in DOMAIN rows : rows[i].win = w })

GameWon_OrTied(legs_won, legs_lost) == legs_won >= legs_lost

\* "if legs_won > legs_lost"
GameWon(legs_won, legs_lost) == legs_won > legs_lost

\* "elif legs_lost > legs_won"
GameLost(legs_won, legs_lost) ==
    ~GameWon(legs_won, legs_lost) /\ legs_lost > legs_won

GameTypeStats_PerLeg(has_set_columns, game_df) ==
    [wins |-> CountWin(game_df, "W"), losses |-> CountWin(game_df, "L")]

\* stats[f"{game_type}_{pf}"] for one non-empty game_df
GameTypeStats(has_set_columns, game_df) ==
    IF ~has_set_columns
    THEN [wins |-> CountWin(game_df, "W"), losses |-> CountWin(game_df, "L")]
    ELSE [wins |-> Cardinality({ k \in GroupKeys(game_df) :
                       GameWon(CountWin(SetData(game_df, k), "W"),
                               CountWin(SetData(game_df, k), "L")) }),
          losses |-> Cardinality({ k \in GroupKeys(game_df) :
                       GameLost(CountWin(SetData(game_df, k), "W"),
                                CountWin(SetData(game_df, k), "L")) })]

\* _calculate_game_specific_stats: the stats dictionary, keyed by game type
\* and play format.
CalculateGameSpecificStats(player_df) ==
    LET rows == player_df.rows
        keys == { k \in Unique(rows, "game_name") \X Unique(rows, "pf") :
                      Len(GameDf(rows, k[1], k[2])) > 0 }
    IN  [ k \in keys |->
              GameTypeStats(player_df.has_set_columns, GameDf(rows, k[1], k[2])) ]

\* Bound of the input.
MaxLegs == 3

GroupColumns ==
    { <<"m1", "1", "501 SIDO", "S">>, <<"m1", "2", "501 SIDO", "S">>,
      <<"m2", "1", "501 SIDO", "S">>, <<"m1", "1", "Cricket", "S">>,
      <<"m1", "1", "501 SIDO", "D">>, <<NaN, "1", "501 SIDO", "S">>,
      <<"m1", NaN, "501 SIDO", "S">> }

LegRows == { LegRow(c[1], c[2], c[3], c[4], w) : c \in GroupColumns, w \in {"W", "L"} }

PlayerFrames ==
    { Frame(h, rows) : h \in BOOLEAN,
                       rows \in UNION { [1..n -> LegRows] : n \in 0..MaxLegs } }

GameStatsCalls == { [fn |-> "game_stats", player_df |-> df] : df \in PlayerFrames }

InitAgg ==
    /\ InitFetcher
    /\ call \in GameStatsCalls

GameSpecificStats ==
    /\ call.fn = "game_stats" /\ ~Returned(call)
    /\ call' = [fn |-> "game_stats", player_df |-> call.player_df,
                out |-> CalculateGameSpecificStats(call.player_df)]
    /\ UNCHANGED fetcher

NextAgg == GameSpecificStats

SpecAgg == InitAgg /\ [][NextAgg]_vars

(***************************************************************************)
(* The stat line of one player: generate_team_statistics calling           *)
(* _calculate_player_stats.  A rating is a number of ten-thousandths, the  *)
(* text "2.1356" being 21356.                                              *)
(***************************************************************************)
\* A leg row with all the columns the stat line reads.
StatRow(player_name, report_url, set_no, game_name, pf, win, hi_turn, do_score) ==
    [player_name |-> player_name, report_url |-> report_url, set_no |-> set_no,
     game_name |-> game_name, pf |-> pf, win |-> win,
     hi_turn |-> hi_turn, do_score |-> do_score]

\* team_df[team_df['player_name'] == player_name]; NaN equals nothing.
PlayerDf(team_df, player_name) ==
    Frame(team_df.has_set_columns,
          SelectSeq(team_df.rows,
                    LAMBDA r : player_name # NaN /\ r.player_name = player_name))

EstimateGamesPlayed_LegsOnly(player_df) ==
    IF Len(player_df.rows) = 0 THEN 0
    ELSE IF 1 > Len(player_df.rows) \div 3 THEN 1 ELSE Len(player_df.rows) \div 3

\* _estimate_games_played: groupby(['report_url', 'Set #']).ngroups, or
\* max(1, len(player_df) // 3) without the two columns.
EstimateGamesPlayed(player_df) ==
    IF Len(player_df.rows) = 0 THEN 0
    ELSE IF player_df.has_set_columns THEN Cardinality(GroupKeys(player_df.rows))
    ELSE IF 1 > Len(player_df.rows) \div 3 THEN 1 ELSE Len(player_df.rows) \div 3

\* f"{x:.4f}" of the quotient num / den >= 0, in ten-thousandths: the
\* nearest one; when the quotient lies exactly half way between two, the
\* double that the float arithmetic produced decides, so either may appear.
Format4(num, den) ==
    LET q == (num * 10000) \div den
        r == (num * 10000) % den
    IN  IF 2 * r < den THEN {q}
        ELSE IF 2 * r > den THEN {q + 1}
        ELSE {q, q + 1}

Rating_WinsOnce(total_wins, games_played, qps, legs_played) ==
    IF games_played > 0
    THEN Format4(total_wins * legs_played + qps * games_played,
                 games_played * legs_played)
    ELSE {0}

\* "if games_played > 0: rating = ((total_wins * 2) / games_played)
\*  + (qps / legs_played) ... else: rating = '0.0000'", legs_played > 0.
Rating(total_wins, games_played, qps, legs_played) ==
    IF games_played > 0
    THEN Format4(total_wins * 2 * legs_played + qps * games_played,
                 games_played * legs_played)
    ELSE {0}

(***************************************************************************)
(* The match details fetched, and the Cricket QP taken from them.          *)
(***************************************************************************)
\* A game of a match detail.
Game(game_name, turns) == [game_name |-> game_name, turns |-> turns]

\* extract_cricket_stats(game_data): the parsed Cricket games of a detail.
RECURSIVE ExtractCricketStats(_, _)
ExtractCricketStats(games, i) ==
    IF i > Len(games) THEN <<>>
    ELSE LET rest == ExtractCricketStats(games, i + 1)
             cricket_stats == ParseCricketGame(games[i].turns)
         IN  IF games[i].game_name = "Cricket" /\ cricket_stats.found
             THEN <<cricket_stats>> \o rest
             ELSE rest

\* The details of the two matches on the site: in m1 a 501 game and a
\* Cricket game of Ann ("T20,T19,S18") against Bob ("S20"), in m2 a Cricket
\* game of Ann alone ("T20,D20").
SiteDetails ==
    [ m1 |-> << Game("501", << [home |-> Side("Ann", <<"6", "0">>),
                                away |-> Side("Bob", <<"4", "5">>)] >>),
                Game("Cricket",
                     << [home |-> Side("Ann", <<"T", "2", "0", ",", "T", "1", "9",
                                                ",", "S", "1", "8">>),
                         away |-> Side("Bob", <<"S", "2", "0">>)] >>) >>,
      m2 |-> << Game("Cricket",
                     << [home |-> Side("Ann", <<"T", "2", "0", ",", "D", "2", "0">>),
                         away |-> NoSide] >>) >> ]

\* enhanced_data['cricket_qp_data'] when the details of the matches in
\* fetched were fetched: the Cricket games of each.
RECURSIVE CricketQpData(_)
CricketQpData(fetched) ==
    IF fetched = {} THEN <<>>
    ELSE LET url == CHOOSE u \in fetched : TRUE
         IN  ExtractCricketStats(SiteDetails[url], 1) \o CricketQpData(fetched \ {url})

\* game.get('players', []): the players of a parsed game, listed.
RECURSIVE PlayerList(_)
PlayerList(players) ==
    IF DOMAIN players = {} THEN <<>>
    ELSE LET name == CHOOSE n \in DOMAIN players : TRUE
         IN  <<players[name]>>
             \o PlayerList([n \in DOMAIN players \ {name} |-> players[n]])

\* The players of a list of parsed games, one element per player and game.
RECURSIVE PlayerStatsOf(_, _)
PlayerStatsOf(cricket_games, i) ==
    IF i > Len(cricket_games) THEN <<>>
    ELSE PlayerList(cricket_games[i].players)
         \o PlayerStatsOf(cricket_games, i + 1)

RECURSIVE SumCricketQP(_, _, _)
SumCricketQP(players, name, i) ==
    IF i > Len(players) THEN 0
    ELSE (IF players[i].name = name THEN CalculateCricketQP(players[i]) ELSE 0)
         + SumCricketQP(players, name, i + 1)

\* _calculate_enhanced_qp_stats: cricket_enhanced_qp, player name -> total_qp.
CricketEnhancedQP(cricket_games) ==
    LET players == PlayerStatsOf(cricket_games, 1)
    IN  [ name \in { players[i].name : i \in DOMAIN players } |->
              SumCricketQP(players, name, 1) ]

\* _get_cricket_qps_for_player
GetCricketQpsForPlayer(player_name, cricket_enhanced_qp) ==
    IF player_name \in DOMAIN cricket_enhanced_qp
    THEN cricket_enhanced_qp[player_name] ELSE 0

CalculateTotalQps_Subtracted(player_df, player_name, cricket_enhanced_qp) ==
    Calculate501QpsFromCsv(player_df.rows)
    - GetCricketQpsForPlayer(player_name, cricket_enhanced_qp)

\* _calculate_total_qps
CalculateTotalQps(player_df, player_name, cricket_enhanced_qp) ==
    Calculate501QpsFromCsv(player_df.rows)
    + GetCricketQpsForPlayer(player_name, cricket_enhanced_qp)

\* sum of the wins, and of the losses, of game_stats
RECURSIVE SumStats(_, _)
SumStats(game_stats, field) ==
    IF DOMAIN game_stats = {} THEN 0
    ELSE LET k == CHOOSE j \in DOMAIN game_stats : TRUE
         IN  game_stats[k][field]
             + SumStats([j \in DOMAIN game_stats \ {k} |-> game_stats[j]], field)

\* game_stats.get(key, {}).get(field, 0)
StatGet(game_stats, key, field) ==
    IF key \in DOMAIN game_stats THEN game_stats[key][field] ELSE 0

EmptyPlayerStats_OneGame(player_name, games_to_qualify) ==
    [name |-> player_name, legs |-> 0, games |-> 1,
     qualify |-> games_to_qualify, eligibility |-> "INELIGIBLE",
     s01_w |-> 0, s01_l |-> 0, sc_w |-> 0, sc_l |-> 0,
     d01_w |-> 0, d01_l |-> 0, dc_w |-> 0, dc_l |-> 0,
     total_w |-> 0, total_l |-> 0, qps |-> 0, rating |-> 0]

\* _empty_player_stats
EmptyPlayerStats(player_name, games_to_qualify) ==
    [name |-> player_name, legs |-> 0, games |-> 0,
     qualify |-> games_to_qualify, eligibility |-> "INELIGIBLE",
     s01_w |-> 0, s01_l |-> 0, sc_w |-> 0, sc_l |-> 0,
     d01_w |-> 0, d01_l |-> 0, dc_w |-> 0, dc_l |-> 0,
     total_w |-> 0, total_l |-> 0, qps |-> 0, rating |-> 0]

\* _calculate_player_stats: the stat lines it can return (one, or two that
\* differ in the last digit of the rating).  The percentage texts win_pct
\* and qp_pct are left out.
CalculatePlayerStats(team_df, player_name, games_to_qualify_threshold, cricket_enhanced_qp) ==
    LET player_df == PlayerDf(team_df, player_name)
        legs_played == Len(player_df.rows)
        games_played == EstimateGamesPlayed(player_df)
        game_stats == CalculateGameSpecificStats(player_df)
        total_wins == SumStats(game_stats, "wins")
        total_losses == SumStats(game_stats, "losses")
        qps == CalculateTotalQps(player_df, player_name, cricket_enhanced_qp)
    IN  IF legs_played = 0
        THEN { EmptyPlayerStats(player_name, games_to_qualify_threshold) }
        ELSE { [name |-> player_name, legs |-> legs_played, games |-> games_played,
                qualify |-> IF games_to_qualify_threshold - games_played > 0
                            THEN games_to_qualify_threshold - games_played ELSE 0,
                eligibility |-> IF games_played >= games_to_qualify_threshold
                                THEN "QUALIFIED" ELSE "INELIGIBLE",
                s01_w |-> StatGet(game_stats, <<"501 SIDO", "S">>, "wins"),
                s01_l |-> StatGet(game_stats, <<"501 SIDO", "S">>, "losses"),
                sc_w |-> StatGet(game_stats, <<"Cricket", "S">>, "wins"),
                sc_l |-> StatGet(game_stats, <<"Cricket", "S">>, "losses"),
                d01_w |-> StatGet(game_stats, <<"501 SIDO", "D">>, "wins"),
                d01_l |-> StatGet(game_stats, <<"501 SIDO", "D">>, "losses"),
                dc_w |-> StatGet(game_stats, <<"Cricket", "D">>, "wins"),
                dc_l |-> StatGet(game_stats, <<"Cricket", "D">>, "losses"),
                total_w |-> total_wins, total_l |-> total_losses,
                qps |-> qps, rating |-> rating] :
               rating \in Rating(total_wins, games_played, qps, legs_played) }

\* games_to_qualify = int(matches_per_team * 1.5),
\* matches_per_team = (num_teams - 1) * 2, num_teams >= 1.
GamesToQualify(num_teams) == ((num_teams - 1) * 2 * 3) \div 2

\* Bounds of the inputs.
MaxTeams == 2
MaxCount == 3

StatRows ==
    { StatRow("Ann", "m1", "1", "501 SIDO", "S", "W", Num(132), Num(132)),
      StatRow("Ann", "m1", "1", "501 SIDO", "S", "L", Num(94), Absent),
      StatRow("Ann", "m2", "1", "Cricket", "S", "W", Absent, Absent),
      StatRow("Ann", "m1", "1", "Cricket", "S", "W", Absent, Absent),
      StatRow("Ann", NaN, "1", "501 SIDO", "S", "W", Num(180), Absent),
      StatRow("Ann", "m1", NaN, "Cricket", "D", "L", Absent, Absent),
      StatRow("Bob", "m1", "1", "501 SIDO", "D", "W", Num(132), Absent) }

TeamFrames ==
    { Frame(h, rows) : h \in BOOLEAN,
                       rows \in UNION { [1..n -> StatRows] : n \in 1..MaxLegs } }

\* One player of one team: the number of teams of the division, the team's
\* legs, the player's name (Cy has no leg in any table) and the matches whose
\* details were fetched.
PlayerStatsCalls ==
    { [fn |-> "player_stats", num_teams |-> n, team_df |-> df,
       player_name |-> name, fetched |-> f] :
          n \in 1..MaxTeams, df \in TeamFrames, name \in {"Ann", "Cy"},
          f \in SUBSET {"m1", "m2"} }

\* The rating of a player with legs: wins, games, QP and legs, among them
\* those of the worked example and of two quotients that lie half way.
RatingCalls ==
    { [fn |-> "rating", total_wins |-> w, games_played |-> g, qps |-> q,
       legs_played |-> l] :
          w \in 0..MaxCount, g \in 0..MaxCount, q \in 0..MaxCount,
          l \in 1..MaxCount }
    \cup { [fn |-> "rating", total_wins |-> 19, games_played |-> 39,
            qps |-> 108, legs_played |-> 93],
           [fn |-> "rating", total_wins |-> 0, games_played |-> 1,
            qps |-> 1, legs_played |-> 32],
           [fn |-> "rating", total_wins |-> 1, games_played |-> 3,
            qps |-> 5, legs_played |-> 96] }

InitStats ==
    /\ InitFetcher
    /\ call \in PlayerStatsCalls \cup RatingCalls

PlayerStats ==
    /\ call.fn = "player_stats" /\ ~Returned(call)
    /\ \E line \in CalculatePlayerStats(
                       call.team_df, call.player_name,
                       GamesToQualify(call.num_teams),
                       CricketEnhancedQP(CricketQpData(call.fetched))) :
           call' = [fn |-> "player_stats", num_teams |-> call.num_teams,
                    team_df |-> call.team_df, player_name |-> call.player_name,
                    fetched |-> call.fetched, out |-> line]
    /\ UNCHANGED fetcher

RatingOf ==
    /\ call.fn = "rating" /\ ~Returned(call)
    /\ \E rating \in Rating(call.total_wins, call.games_played, call.qps,
                            call.legs_played) :
           call' = [fn |-> "rating", total_wins |-> call.total_wins,
                    games_played |-> call.games_played, qps |-> call.qps,
                    legs_played |-> call.legs_played, out |-> rating]
    /\ UNCHANGED fetcher

NextStats == PlayerStats \/ RatingOf

SpecStats == InitStats /\ [][NextStats]_vars

(***************************************************************************)
(* One run of _process_dartconnect_urls over the report URLs of a file:    *)
(* the loop over unique_urls, one fetch each, and the Cricket QP totals    *)
(* computed from what was fetched.                                         *)
(***************************************************************************)
\* The games of a fetched detail: d1 is the detail of match m1, d2 of m2.
GamesOf(game_data) ==
    IF game_data = "d1" THEN SiteDetails.m1 ELSE SiteDetails.m2

\* What the site serves for a game URL: the page of its match.
MatchPage(game_url) ==
    Page("ok", "escaped", "props",
         IF game_url.segs[Len(game_url.segs)] = "m1" THEN "d1" ELSE "d2")

\* The distinct values of the report_url column.
RunUrls ==
    { AlternateUrl("m1"), AlternateFragmentUrl("m1"), CanonicalUrl("m1"),
      CanonicalQueryUrl("m1"), AlternateUrl("m2"), WrongShapeUrl }

\* df['report_url'].unique(): sequences of distinct values.
UniqueUrls ==
    { us \in UNION { [1..n -> RunUrls] : n \in 1..MaxCalls } :
          \A i, j \in DOMAIN us : i # j => us[i] # us[j] }

InitRun ==
    /\ InitFetcher
    /\ call \in { [fn |-> "process_urls", unique_urls |-> us, done |-> 0,
                   cricket_qp_data |-> <<>>] : us \in UniqueUrls }

\* One turn of the loop: convert, fetch, and extend cricket_qp_data with the
\* Cricket games of the detail when one came back.
ProcessNext ==
    /\ call.fn = "process_urls" /\ ~Returned(call)
    /\ call.done < Len(call.unique_urls)
    /\ LET url == call.unique_urls[call.done + 1]
           game_url == ConvertToGameUrl(url) IN
       \E page \in { MatchPage(game_url), Page("timeout", "absent", "none", None) } :
           /\ FetchGameDataCall(game_url, page, "none")
           /\ call' = [call EXCEPT
                  !.done = @ + 1,
                  !.cricket_qp_data =
                      IF Truthy(last'.result)
                      THEN @ \o ExtractCricketStats(GamesOf(last'.result), 1)
                      ELSE @]

\* After the loop: enhanced_statistics['cricket_enhanced_qp'], empty when no
\* Cricket game was fetched.
FinishRun ==
    /\ call.fn = "process_urls" /\ ~Returned(call)
    /\ call.done = Len(call.unique_urls)
    /\ call' = [fn |-> "process_urls", unique_urls |-> call.unique_urls,
                done |-> call.done, cricket_qp_data |-> call.cricket_qp_data,
                out |-> CricketEnhancedQP(call.cricket_qp_data)]
    /\ UNCHANGED fetcher

NextRun == ProcessNext \/ FinishRun

SpecRun == InitRun /\ [][NextRun]_vars

(***************************************************************************)
(* Fetches of the matches of the site through the locators of their pages. *)
(***************************************************************************)
\* The locators fetched: the page of each match, and the page of m1 reached
\* with a query string that refers to the page of m2.
KeyLocators ==
    { CanonicalUrl("m1"), CanonicalUrl("m2"), AlternateUrl("m1"),
      ReferringUrl("m1") }

\* fetch_game_data(url), the site serving the page of the match of the path.
FetchMatch == \E url \in KeyLocators : FetchGameData(url, MatchPage(url), "none")

NextKeys == FetchMatch \/ Tick

SpecKeys == Init /\ [][NextKeys]_vars

(***************************************************************************)
(* Two fetches of one key at the same time, each by a fetcher of its own   *)
(* (its own counters) over the same cache directory, step by step.  In     *)
(* this specification cache maps a key to the text of its file, a sequence *)
(* of units of text, and putLog lists the fetches that closed the file, in *)
(* the order of the closes.  _cache_data opens the file with mode "w",     *)
(* which truncates it, and json.dump then writes through that handle at    *)
(* the handle's own offset; nothing locks the file or renames a finished   *)
(* one into place.                                                         *)
(***************************************************************************)
Fetchers == {"f1", "f2"}

\* The locator each fetch is called with: two locators of match m1.
RaceUrl(p) == IF p = "f1" THEN CanonicalQueryUrl("m1") ELSE CanonicalUrl("m1")

\* The length of the text of an entry: it holds the URL, so the entry of a
\* URL with a query string is the longer.
EntryLen(url) == IF url.tail = "" THEN 2 ELSE 3

\* json.dump(cache_entry, f, ...): the text of the entry, unit by unit.
EntryText(url, game_data) ==
    [ i \in 1..EntryLen(url) |-> [url |-> url, game_data |-> game_data, at |-> i] ]

\* The bytes of a file that lie before an offset written to and were never
\* written.
Hole == [url |-> NoUrl, game_data |-> None, at |-> 0]

\* f.write at offset off (counted from 0) of a file holding cells.
WriteAt(cells, off, unit) ==
    [ i \in 1..(IF Len(cells) > off + 1 THEN Len(cells) ELSE off + 1) |->
          IF i = off + 1 THEN unit
          ELSE IF i <= Len(cells) THEN cells[i] ELSE Hole ]

Raises == "raises"
Mixed == "mixed"

\* The texts of the entries the two fetches write.
EntryTexts == { EntryText(RaceUrl(p), "d1") : p \in Fetchers }

\* A text without holes that begins as one entry begins, ends where and as
\* an entry ends, and has no entry as a proper prefix, but is no entry:
\* parts of two entries, the one shifted against the other by the
\* difference of the URLs.
Spliced(cells) ==
    /\ cells # <<>> /\ cells \notin EntryTexts
    /\ \A i \in DOMAIN cells : cells[i] # Hole
    /\ cells[1].at = 1
    /\ cells[Len(cells)].at = Len(cells)
    /\ Len(cells) = EntryLen(cells[Len(cells)].url)
    /\ \A n \in 1..(Len(cells) - 1) : SubSeq(cells, 1, n) \notin EntryTexts

\* json.load(f).get("game_data"): the detail of a whole entry; a JSON error
\* for an empty, unfinished or holed text and for an entry followed by
\* more text; for a spliced text a JSON error, or when the splice falls
\* where the text still parses, a detail that is a mix.
JsonLoad(cells) ==
    IF cells \in EntryTexts THEN {cells[1].game_data}
    ELSE IF Spliced(cells) THEN {Raises, Mixed}
    ELSE {Raises}

\* _get_cached_data(url) on a file that is not expired: None without the
\* file and when reading raises.
CachedResults(url) ==
    IF GetCacheFilename(url) \notin DOMAIN cache THEN {None}
    ELSE { IF r = Raises THEN None ELSE r :
               r \in JsonLoad(cache[GetCacheFilename(url)]) }

InitRace ==
    /\ InitFetcher
    /\ call = [fn |-> "race",
               procs |-> [p \in Fetchers |->
                             [pc |-> "start", game_data |-> None, off |-> 0,
                              result |-> None]]]

\* fetch_game_data up to the cache lookup: a hit returns the cached detail.
RaceLookup(p) ==
    /\ call.procs[p].pc = "start"
    /\ \E r \in CachedResults(RaceUrl(p)) :
           call' = [call EXCEPT !.procs[p].pc = IF r = None THEN "request" ELSE "done",
                                !.procs[p].result = r]
    /\ UNCHANGED fetcher

\* session.get(url) and _extract_game_data_from_html(response.text)
RaceRequest(p) ==
    /\ call.procs[p].pc = "request"
    /\ call' = [call EXCEPT !.procs[p].pc = "open",
                            !.procs[p].game_data =
                                ExtractGameDataFromHtml(MatchPage(RaceUrl(p)))]
    /\ UNCHANGED fetcher

\* open(cache_file, "w"): the file is created or truncated.
RaceOpen(p) ==
    /\ call.procs[p].pc = "open"
    /\ cache' = Store(cache, GetCacheFilename(RaceUrl(p)), <<>>)
    /\ call' = [call EXCEPT !.procs[p].pc = "write", !.procs[p].off = 0]
    /\ UNCHANGED <<now, cache_stats, last, putLog>>

\* One write of json.dump's text reaches the file.
RaceWrite(p) ==
    LET k == GetCacheFilename(RaceUrl(p))
        off == call.procs[p].off
        text == EntryText(RaceUrl(p), call.procs[p].game_data) IN
    /\ call.procs[p].pc = "write" /\ off < Len(text)
    /\ cache' = Store(cache, k, WriteAt(cache[k], off, text[off + 1]))
    /\ call' = [call EXCEPT !.procs[p].off = off + 1]
    /\ UNCHANGED <<now, cache_stats, last, putLog>>

\* The with block ends: the file is closed, and fetch_game_data returns
\* game_data.
RaceClose(p) ==
    /\ call.procs[p].pc = "write"
    /\ call.procs[p].off = EntryLen(RaceUrl(p))
    /\ call' = [call EXCEPT !.procs[p].pc = "done",
                            !.procs[p].result = call.procs[p].game_data]
    /\ putLog' = Append(putLog, p)
    /\ UNCHANGED <<cache, now, cache_stats, last>>

\* _get_cached_data(url) by a third party, at any time.
RaceGet ==
    /\ \E r \in CachedResults(CanonicalUrl("m1")) :
           last' = [NoCall EXCEPT !.op = "get", !.url = CanonicalUrl("m1"),
                                  !.got = r]
    /\ UNCHANGED <<cache, now, cache_stats, putLog, call>>

NextRace ==
    \/ \E p \in Fetchers : RaceLookup(p)
    \/ \E p \in Fetchers : RaceRequest(p)
    \/ \E p \in Fetchers : RaceOpen(p)
    \/ \E p \in Fetchers : RaceWrite(p)
    \/ \E p \in Fetchers : RaceClose(p)
    \/ RaceGet

SpecRace == InitRace /\ [][NextRace]_vars

(***************************************************************************)
(* Properties.                                                             *)
(***************************************************************************)
\* The step is a call of fetch_game_data, of _get_cached_data.
FetchStep == last'.op = "fetch" /\ <<last, cache_stats>>' # <<last, cache_stats>>

GetStep ==
    last'.op = "get" /\ <<last, cache, cache_stats>>' # <<last, cache, cache_stats>>

\* The locators of the two accepted shapes, .../games/{matchId} and
\* .../history/report/match/{matchId}, with a match id.
AcceptedLocators ==
    { CanonicalUrl("m1"), CanonicalUrl("m2"), AlternateUrl("m1"),
      CanonicalQueryUrl("m1") }

\* The second of two calls in sequence on one locator: hit, same content,
\* no HTTP GET.
SecondIsHit ==
    /\ last'.result = last.result
    /\ last'.net = 0
    /\ cache_stats'.hits = cache_stats.hits + 1
    /\ cache_stats'.misses = cache_stats.misses
    /\ cache_stats'.new_fetches = cache_stats.new_fetches

\* C1 as stated: whenever a fetch of an accepted locator made the HTTP GET
\* and the next call fetches the same locator at once, the second call
\* returns what the first returned, counts one hit, leaves misses and
\* new_fetches alone and makes no HTTP GET.
C1_Original ==
    [][ (/\ FetchStep
         /\ last.op = "fetch" /\ last.net = 1
         /\ last.url \in AcceptedLocators
         /\ last'.url = last.url
         /\ now = last.at)
        => SecondIsHit ]_vars

\* C1, amended: a fetch of an accepted locator on an empty cache makes the
\* HTTP GET (to that locator) and counts a miss; and when a fetch made the
\* HTTP GET and returned a detail, a next fetch of the same locator within
\* the expiry period returns the same detail, counts one hit, leaves misses
\* and new_fetches alone and makes no HTTP GET.
C1_FetchIdempotent ==
    [][ /\ (/\ FetchStep
            /\ last'.url \in AcceptedLocators
            /\ cache = <<>>)
           => /\ last'.net = 1 /\ last'.geturl = last'.url
              /\ cache_stats'.misses = cache_stats.misses + 1
              /\ cache_stats'.hits = cache_stats.hits
        /\ (/\ FetchStep
            /\ last.op = "fetch" /\ last.net = 1 /\ last.result # None
            /\ last'.url = last.url
            /\ now - last.at <= cache_expiry_days)
           => SecondIsHit ]_vars

\* Two fetches made: the first fetched a detail, the second was a hit.
C1_Witness ==
    /\ last.op = "fetch" /\ last.net = 0 /\ last.result \in Details
    /\ cache_stats = [hits |-> 1, misses |-> 1, expired |-> 0, new_fetches |-> 1]

\* C2: a get of a key returns exactly the detail of the latest put on that
\* key whenever no more than the expiry period has passed since that put
\* (the age equal to the period included): a later put overwrites, and the
\* period counts from it.
C2_CacheRoundTrip ==
    [][ \A k \in DOMAIN putLog :
          (/\ GetStep
           /\ GetCacheFilename(last'.url) = k
           /\ now - putLog[k].at <= cache_expiry_days)
          => last'.result = putLog[k].game_data ]_vars

\* A get, at exactly the expiry age, of a key whose file had been
\* overwritten, returning what the overwriting put stored.
C2_Witness ==
    /\ last.op = "get"
    /\ GetCacheFilename(last.url) \in DOMAIN putLog
    /\ LET p == putLog[GetCacheFilename(last.url)] IN
         /\ p.over
         /\ last.at - p.at = cache_expiry_days
         /\ last.result = p.game_data

\* C3: a get of a key that has an entry older than the expiry period returns
\* None, removes the entry and counts one expiry; a get of a key without an
\* entry returns None, counts no expiry and leaves the directory alone, so a
\* further get after an expiry does not count it again.
C3_Expiry ==
    [][ LET k == GetCacheFilename(last'.url) IN
        /\ (GetStep /\ k \in DOMAIN cache /\ now - putLog[k].at > cache_expiry_days)
           => /\ last'.result = None
              /\ k \notin DOMAIN cache'
              /\ cache_stats'.expired = cache_stats.expired + 1
        /\ (GetStep /\ k \notin DOMAIN cache)
           => /\ last'.result = None
              /\ cache' = cache
              /\ cache_stats' = cache_stats
        /\ (/\ GetStep /\ last.op = "get" /\ last.result = None
            /\ GetCacheFilename(last.url) = k)
           => cache_stats'.expired = cache_stats.expired ]_vars

\* A get has just found an expired entry: it returned None, the entry is
\* gone and one expiry is counted.
C3_Witness ==
    /\ last.op = "get" /\ last.result = None
    /\ GetCacheFilename(last.url) \in DOMAIN putLog
    /\ GetCacheFilename(last.url) \notin DOMAIN cache
    /\ cache_stats.expired = 1

\* The HTTP GET failed (transport error, timeout, error status) or the
\* payload cannot be extracted (attribute missing, JSON malformed, no props).
FailedFetch(page) ==
    \/ page.status \in {"timeout", "connection_error", "http_error"}
    \/ page.attr = "absent"
    \/ page.doc \in {"malformed", "noprops"}

\* C4: a fetch whose HTTP GET or payload extraction fails returns None, leaves
\* no entry for the key and does not count a new fetch; and the next fetch
\* of the same locator makes an HTTP GET again.
C4_FailedNotCached ==
    [][ /\ (FetchStep /\ last'.net = 1 /\ FailedFetch(last'.page))
           => /\ last'.result = None
              /\ GetCacheFilename(last'.url) \notin DOMAIN cache'
              /\ cache_stats'.new_fetches = cache_stats.new_fetches
        /\ (/\ FetchStep
            /\ last.op = "fetch" /\ last.net = 1 /\ FailedFetch(last.page)
            /\ last'.url = last.url)
           => last'.net = 1 ]_vars

\* Two fetches failed one after the other, each with its HTTP GET, the
\* second on an error response that carries a payload.
C4_Witness ==
    /\ last.op = "fetch" /\ last.net = 1 /\ last.page.status = "http_error"
    /\ last.result = None
    /\ cache = <<>>
    /\ cache_stats = [hits |-> 0, misses |-> 2, expired |-> 0, new_fetches |-> 0]

\* A locator of the shape .../games/{matchId} or
\* .../history/report/match/{matchId} with a non-empty matchId.
OfAcceptedShape(url) ==
    \E id \in {"m1", "m2"} :
        url.segs \in { <<"games", id>>, <<"history", "report", "match", id>> }

\* C5: a fetch of a locator that is not of an accepted shape returns None,
\* makes no HTTP GET and leaves the cache directory and all four counters
\* as they were.
C5_InvalidLocatorNoEffect ==
    [][ (FetchStep /\ ~OfAcceptedShape(last'.url))
        => /\ last'.result = None
           /\ last'.net = 0
           /\ cache' = cache
           /\ cache_stats' = cache_stats ]_vars

\* The fetched document carries the attribute with entity-escaped JSON that
\* parses and has a "props" field holding a JSON object.
HasProps(page) ==
    /\ page.status = "ok" /\ page.attr = "escaped" /\ page.doc = "props"
    /\ page.props # None

\* C6: a fetch of an accepted locator that misses the cache and gets a
\* document with a "props" field returns that props value, stores it under
\* the locator's key and counts exactly one new fetch.
C6_FetchSuccess ==
    [][ (/\ FetchStep /\ last'.net = 1
         /\ last'.url \in AcceptedLocators
         /\ HasProps(last'.page))
        => LET k == GetCacheFilename(last'.url) IN
           /\ last'.result = last'.page.props
           /\ k \in DOMAIN cache'
           /\ cache'[k].game_data = last'.page.props
           /\ cache_stats'.new_fetches = cache_stats.new_fetches + 1 ]_vars


(***************************************************************************)
(* Quality Points.                                                         *)
(***************************************************************************)
Max(S) == CHOOSE x \in S : \A y \in S : y <= x

\* The tabulated Cricket ladder: the condition of each level.
LadderHolds(level, m, b) ==
    CASE level = 5 -> m >= 9 \/ b >= 6 \/ (m >= 3 /\ b >= 4) \/ (m >= 6 /\ b >= 2)
      [] level = 4 -> \/ m >= 8 \/ b >= 5 \/ (m >= 2 /\ b >= 4)
                      \/ (m >= 3 /\ b >= 3) \/ (m >= 5 /\ b >= 2)
                      \/ (m >= 6 /\ b >= 1)
      [] level = 3 -> \/ m >= 7 \/ b >= 4 \/ (m >= 1 /\ b >= 4)
                      \/ (m >= 2 /\ b >= 3) \/ (m >= 4 /\ b >= 2)
                      \/ (m >= 5 /\ b >= 1)
      [] level = 2 -> \/ m >= 6 \/ b >= 3 \/ (m >= 1 /\ b >= 3)
                      \/ (m >= 3 /\ b >= 2) \/ (m >= 4 /\ b >= 1)
      [] level = 1 -> m >= 5 \/ (m >= 3 /\ b >= 1) \/ (m >= 2 /\ b >= 2)

HighestLevel(m, b) == Max({0} \cup { l \in 1..5 : LadderHolds(l, m, b) })

TurnExamples ==
    { <<9, 0, 5>>, <<0, 6, 5>>, <<3, 4, 5>>, <<4, 0, 0>>, <<5, 0, 1>> }

\* C7: the level _calculate_turn_qp returns for (marks, bulls) is the highest
\* level of the tabulated ladder whose condition holds, 0 when none holds, so
\* it lies in 0..5; and (9,0), (0,6), (3,4), (4,0), (5,0) give 5, 5, 5, 0, 1.
C7_TurnLadder ==
    (call.fn = "turn_qp" /\ Returned(call)) =>
        /\ call.out = HighestLevel(call.marks, call.bulls)
        /\ call.out \in 0..5
        /\ \A e \in TurnExamples :
               (call.marks = e[1] /\ call.bulls = e[2]) => call.out = e[3]

\* C7 witness: five marks and no bull have been scored as level 1.
C7_Witness ==
    /\ call.fn = "turn_qp" /\ Returned(call)
    /\ call.marks = 5 /\ call.bulls = 0 /\ call.out = 1

\* The tabulated 501 brackets: <<points, low, high>>.
TotalBrackets ==
    { <<1, 95, 115>>, <<2, 116, 131>>, <<3, 132, 147>>, <<4, 148, 163>>,
      <<5, 164, 180>> }

CheckoutBrackets ==
    { <<1, 61, 84>>, <<2, 85, 106>>, <<3, 107, 128>>, <<4, 129, 150>>,
      <<5, 151, 170>> }

\* The points of a score cell in a bracket table: those of the bracket the
\* score lies in, 0 outside all brackets or for no score.
BracketPoints(brackets, cell) ==
    IF cell.kind # "num" THEN 0
    ELSE LET in == { k \in brackets : k[2] <= cell.v /\ cell.v <= k[3] }
         IN  IF in = {} THEN 0 ELSE (CHOOSE k \in in : TRUE)[1]

LegPoints(total, checkout) ==
    BracketPoints(TotalBrackets, total) + BracketPoints(CheckoutBrackets, checkout)

RECURSIVE FramePoints(_, _)
FramePoints(rows, i) ==
    IF i > Len(rows) THEN 0
    ELSE (IF rows[i].game_name = "501 SIDO"
          THEN LegPoints(rows[i].hi_turn, rows[i].do_score) ELSE 0)
         + FramePoints(rows, i + 1)

\* C8: the QP of a 501 leg is the total-score points of its high turn plus
\* the checkout points of its checkout, a score outside all brackets or an
\* absent checkout giving 0, so it lies in 0..10; this holds for
\* calculate_501_qp and for each 501 row summed by
\* _calculate_501_qps_from_csv; (132,132) gives 7 and (94, absent) gives 0.
C8_Leg501Additive ==
    /\ (call.fn = "501" /\ Returned(call) /\ call.total_score.kind = "num") =>
          /\ call.out = LegPoints(call.total_score, call.checkout_score)
          /\ call.out \in 0..10
          /\ (call.total_score = Num(132) /\ call.checkout_score = Num(132))
                 => call.out = 7
          /\ (call.total_score = Num(94) /\ call.checkout_score = Absent)
                 => call.out = 0
    /\ (call.fn = "csv501" /\ Returned(call)) =>
          /\ call.out = FramePoints(call.player_df, 1)
          /\ Len(call.player_df) = 1 => call.out \in 0..10

\* C8 witness: a high turn of 132 with a checkout of 132 has been scored 7.
C8_Witness ==
    /\ call.fn = "501" /\ Returned(call)
    /\ call.total_score = Num(132) /\ call.checkout_score = Num(132)
    /\ call.out = 7

\* The turns a player threw in a game: <<turn index, side>>.
ThrowsOf(turns, name) ==
    { t \in (DOMAIN turns) \X {"home", "away"} : turns[t[1]][t[2]].name = name }

\* The level of one turn score.
TurnLevel(turn_score) ==
    CalculateTurnQP(ParseCricketTurn(turn_score).marks,
                    ParseCricketTurn(turn_score).bulls)

LevelsOf(turns, name) ==
    { <<t, TurnLevel(turns[t[1]][t[2]].turn_score)>> : t \in ThrowsOf(turns, name) }

RECURSIVE SumLevels(_)
SumLevels(S) ==
    IF S = {} THEN 0
    ELSE LET x == CHOOSE y \in S : TRUE IN x[2] + SumLevels(S \ {x})

PlayersOf(game_info) == { game_info.players[n] : n \in DOMAIN game_info.players }

\* C9: the Cricket QP of each player of a leg is the greatest level among
\* the player's turns of that leg, and 0 when none of the turns scores.
C9_CricketLegMax ==
    (call.fn = "cricket_game" /\ Returned(call) /\ call.out.found) =>
        \A ps \in PlayersOf(call.out) :
            LET levels == { l[2] : l \in LevelsOf(call.turns, ps.name) }
            IN  /\ levels # {}
                /\ CalculateCricketQP(ps) = Max(levels)
                /\ levels = {0} => CalculateCricketQP(ps) = 0

\* C9 witness: a player with two scoring turns whose leg QP is below the sum
\* of the two levels.
C9_Witness ==
    /\ call.fn = "cricket_game" /\ Returned(call) /\ call.out.found
    /\ \E ps \in PlayersOf(call.out) :
           /\ Cardinality({ l \in LevelsOf(call.turns, ps.name) : l[2] > 0 }) = 2
           /\ CalculateCricketQP(ps) < SumLevels(LevelsOf(call.turns, ps.name))
           /\ CalculateCricketQP(ps) = 3

(***************************************************************************)
(* Games won and lost.                                                     *)
(***************************************************************************)
\* The groups of a player's legs: match, set, discipline and format.
LegGroups(rows) ==
    { <<rows[i].report_url, rows[i].set_no, rows[i].game_name, rows[i].pf>> :
          i \in { j \in DOMAIN rows : /\ rows[j].report_url # NaN
                                      /\ rows[j].set_no # NaN } }

LegsOf(rows, g, w) ==
    Cardinality({ i \in DOMAIN rows :
        /\ <<rows[i].report_url, rows[i].set_no, rows[i].game_name, rows[i].pf>> = g
        /\ rows[i].win = w })

\* The counter of one discipline and format in the returned stats.
StatsOf(stats, game_type, pf) ==
    IF <<game_type, pf>> \in DOMAIN stats THEN stats[<<game_type, pf>>]
    ELSE [wins |-> 0, losses |-> 0]

\* C10: in the stats returned for a player, the wins of a discipline and
\* format are the groups (match, set, discipline, format) of the player's
\* legs with more legs won than lost, its losses the groups with fewer, and a
\* group with as many won as lost is counted in neither.
C10_GameWinLoss ==
    (call.fn = "game_stats" /\ Returned(call) /\ call.player_df.has_set_columns) =>
        LET rows == call.player_df.rows IN
        \A game_type \in {"501 SIDO", "Cricket"}, pf \in {"S", "D"} :
            LET groups == { g \in LegGroups(rows) : g[3] = game_type /\ g[4] = pf }
                won == { g \in groups : LegsOf(rows, g, "W") > LegsOf(rows, g, "L") }
                lost == { g \in groups : LegsOf(rows, g, "W") < LegsOf(rows, g, "L") }
            IN  StatsOf(call.out, game_type, pf) =
                    [wins |-> Cardinality(won), losses |-> Cardinality(lost)]

\* C10 witness: stats returned for legs with one group tied and one group
\* won, both of singles 501, counting one win and no loss.
C10_Witness ==
    /\ call.fn = "game_stats" /\ Returned(call) /\ call.player_df.has_set_columns
    /\ LET rows == call.player_df.rows
           groups == { g \in LegGroups(rows) : g[3] = "501 SIDO" /\ g[4] = "S" }
       IN  /\ \E g \in groups : /\ LegsOf(rows, g, "W") = 1
                                /\ LegsOf(rows, g, "L") = 1
           /\ \E g \in groups : /\ LegsOf(rows, g, "W") = 1
                                /\ LegsOf(rows, g, "L") = 0
    /\ StatsOf(call.out, "501 SIDO", "S") = [wins |-> 1, losses |-> 0]

(***************************************************************************)
(* Turn notation.                                                          *)
(***************************************************************************)
\* C17 as stated: "T20,S19,DB" parses to 5 marks and 2 bulls.
C17_Original ==
    (call.fn = "parse_turn" /\ Returned(call) /\ call.darts = ExampleDarts) =>
        call.out = [marks |-> 5, bulls |-> 2]

\* C17: "T20,S19,DB" parses to 4 marks (3 of the triple, 1 of the single)
\* and 2 bulls.
C17_ParseExample ==
    (call.fn = "parse_turn" /\ Returned(call) /\ call.darts = ExampleDarts) =>
        call.out = [marks |-> 4, bulls |-> 2]

\* C17 witness: "T20,S19,DB" has been parsed.
C17_Witness ==
    /\ call.fn = "parse_turn" /\ Returned(call)
    /\ call.turn_score = <<"T", "2", "0", ",", "S", "1", "9", ",", "D", "B">>
    /\ call.out.bulls = 2

\* The grammar's value of a dart: the multiplier of its suffix, its bulls
\* and its marks.
SuffixN(suffix) ==
    CASE suffix = <<"x", "2">> -> 2
      [] suffix = <<"x", "3">> -> 3
      [] OTHER -> 1

HeadBulls(head) ==
    CASE head = <<"S", "B">> -> 1
      [] head = <<"D", "B">> -> 2
      [] head = <<"B">> -> 1
      [] OTHER -> 0

HeadMarks(head) ==
    IF head \in BullHeads THEN 0
    ELSE CASE head[1] = "S" -> 1
           [] head[1] = "D" -> 2
           [] head[1] = "T" -> 3

RECURSIVE GrammarSum(_, _)
GrammarSum(darts, i) ==
    IF i > Len(darts) THEN [marks |-> 0, bulls |-> 0]
    ELSE LET rest == GrammarSum(darts, i + 1)
         IN  [marks |-> HeadMarks(darts[i].head) * SuffixN(darts[i].suffix)
                          + rest.marks,
              bulls |-> HeadBulls(darts[i].head) * SuffixN(darts[i].suffix)
                          + rest.bulls]

\* C18: a turn score of well-formed darts parses to the sums of the grammar
\* (bulls SB 1, DB 2, B 1 and marks S 1, D 2, T 3, each times N, N = 1 with
\* no suffix or one that is no integer); empty or blank input gives (0,0);
\* "SBx2,DBx1"-like and "T15,B" inputs give (0,4) and (3,1).
C18_Grammar ==
    (call.fn = "parse_turn" /\ Returned(call)) =>
        /\ call.out = GrammarSum(call.darts, 1)
        /\ call.darts = <<>> => call.out = [marks |-> 0, bulls |-> 0]
        /\ call.turn_score = <<"T", "1", "5", ",", "B">>
               => call.out = [marks |-> 3, bulls |-> 1]
        /\ call.turn_score = <<"S", "B", "x", "2", ",", "D", "B">>
               => call.out = [marks |-> 0, bulls |-> 4]

\* C18 witness: "DBx3,T15xa" has been parsed to 3 marks and 6 bulls.
C18_Witness ==
    /\ call.fn = "parse_turn" /\ Returned(call)
    /\ call.turn_score = <<"D", "B", "x", "3", ",", "T", "1", "5", "x", "a">>
    /\ call.out = [marks |-> 3, bulls |-> 6]

(***************************************************************************)
(* Locator shapes.                                                         *)
(***************************************************************************)
MatchIds == {"m1", "m2"}

\* The locators of the alternate shape with a match id, and the canonical
\* locator of each: the same id and the same tail.
AlternateLocators ==
    { AlternateUrl(id) : id \in MatchIds }
    \cup { AlternateFragmentUrl(id) : id \in MatchIds }

CanonicalOf(url) == Url(Host, <<"games", url.segs[4]>>, url.tail)

ShapesOf(id) ==
    { CanonicalUrl(id), AlternateUrl(id), CanonicalQueryUrl(id),
      AlternateFragmentUrl(id) }

StatsReturned == call.fn = "player_stats" /\ Returned(call)

\* The legs of the player of the call.
LegsOfPlayer ==
    { i \in DOMAIN call.team_df.rows :
          call.team_df.rows[i].player_name = call.player_name }

\* The distinct (match, set) pairs among those legs.
MatchSetPairs ==
    { <<call.team_df.rows[i].report_url, call.team_df.rows[i].set_no>> :
          i \in LegsOfPlayer } \ ({NaN} \X {"1", "2", "m1", "m2", NaN}
                                   \cup {"1", "2", "m1", "m2", NaN} \X {NaN})

AbsDiff(a, b) == IF a >= b THEN a - b ELSE b - a

ReportsQuotient(rating, num, den) ==
    2 * AbsDiff(rating * den, 10000 * num) <= den

\* C12: with games > 0 and legs > 0 the rating is
\* 2 * wins / games + QP / legs reported to four decimals, in a rating
\* computed alone and in a stat line; for wins 19, games 39, QP 108 and legs
\* 93 it is within 0.0001 of 2.1357.
C12_Rating ==
    /\ (call.fn = "rating" /\ Returned(call)
          /\ call.games_played > 0 /\ call.legs_played > 0) =>
          /\ ReportsQuotient(call.out,
                 2 * call.total_wins * call.legs_played
                     + call.qps * call.games_played,
                 call.games_played * call.legs_played)
          /\ (call.total_wins = 19 /\ call.games_played = 39
                 /\ call.qps = 108 /\ call.legs_played = 93)
                => AbsDiff(call.out, 21357) <= 1
    /\ (StatsReturned /\ call.out.games > 0 /\ call.out.legs > 0) =>
          ReportsQuotient(call.out.rating,
              2 * call.out.total_w * call.out.legs + call.out.qps * call.out.games,
              call.out.games * call.out.legs)

\* C12 witness: the rating of the worked example has been computed, 2.1356.
C12_Witness ==
    /\ call.fn = "rating" /\ Returned(call)
    /\ call.total_wins = 19 /\ call.games_played = 39
    /\ call.qps = 108 /\ call.legs_played = 93
    /\ call.out = 21356

\* C13: in a stat line with no game but with legs the rating is QP / legs
\* reported to four decimals, with neither games nor legs it is 0, and a
\* line with games has legs, so that no division is by zero.
C13_IndependentTerms ==
    StatsReturned =>
        /\ (call.out.games = 0 /\ call.out.legs > 0)
               => ReportsQuotient(call.out.rating, call.out.qps, call.out.legs)
        /\ (call.out.games = 0 /\ call.out.legs = 0) => call.out.rating = 0
        /\ call.out.games > 0 => call.out.legs > 0

\* round(1.5 * 2 * (teamCount - 1)): the product is a whole number.
Threshold(teamCount) == 3 * (teamCount - 1)

\* C14: in every stat line, that of a player without legs included, with
\* threshold = round(1.5 * 2 * (teamCount - 1)) the player is eligible
\* exactly when games >= threshold, and the games remaining to qualify are
\* max(0, threshold - games), never negative.
C14_Eligibility ==
    StatsReturned =>
        /\ (call.out.eligibility = "QUALIFIED")
               <=> (call.out.games >= Threshold(call.num_teams))
        /\ call.out.qualify >= 0
        /\ call.out.qualify =
               IF Threshold(call.num_teams) - call.out.games > 0
               THEN Threshold(call.num_teams) - call.out.games ELSE 0

\* The stat lines of the call's player had only the details of the matches
\* in fetched been fetched.
LinesWith(fetched) ==
    CalculatePlayerStats(call.team_df, call.player_name,
                         GamesToQualify(call.num_teams),
                         CricketEnhancedQP(CricketQpData(fetched)))

\* A stat line without its QP and its rating.
Counters(line) ==
    [ f \in (DOMAIN line) \ {"qps", "rating"} |-> line[f] ]

\* The 501 QP of the player's legs.
CsvQps ==
    Calculate501QpsFromCsv(PlayerDf(call.team_df, call.player_name).rows)

\* C15: a stat line is produced whatever details were fetched; with fewer
\* details fetched the QP is not greater, with none it is the QP of the 501
\* legs alone, and legs, games, every win and loss counter, eligibility and
\* games remaining are the same.
C15_GracefulDegradation ==
    StatsReturned =>
        \A fewer \in SUBSET call.fetched :
            /\ LinesWith(fewer) # {}
            /\ \A line \in LinesWith(fewer) :
                   /\ line.qps <= call.out.qps
                   /\ fewer = {} /\ line.legs > 0 => line.qps = CsvQps
                   /\ Counters(line) = Counters(call.out)

\* C15 witness: a line of Ann with both details fetched whose QP exceeds,
\* by the 4 of her two Cricket games, the QP of her 501 legs.
C15_Witness ==
    /\ StatsReturned /\ call.player_name = "Ann"
    /\ call.fetched = {"m1", "m2"}
    /\ call.out.qps = CsvQps + 4
    /\ CsvQps > 0

\* C16: the stat line of a player without legs is returned, with legs,
\* games, every win and loss counter, QP and rating 0.
C16_ZeroLegs ==
    (StatsReturned /\ LegsOfPlayer = {}) =>
        /\ call.out.name = call.player_name
        /\ \A f \in {"legs", "games", "s01_w", "s01_l", "sc_w", "sc_l",
                     "d01_w", "d01_l", "dc_w", "dc_l", "total_w", "total_l",
                     "qps", "rating"} : call.out[f] = 0

\* C16 witness: a line returned for a player name without legs in a table
\* that has legs.
C16_Witness ==
    /\ StatsReturned /\ LegsOfPlayer = {}
    /\ Len(call.team_df.rows) > 0
    /\ call.out.legs = 0 /\ call.out.rating = 0

(***************************************************************************)
(* Clearing, counters, failures.                                           *)
(***************************************************************************)
\* A locator on the site's host, of an accepted shape with a match id.
Accepted(url) == url.netloc = Host /\ OfAcceptedShape(url)

\* The step is a call of clear_cache.
ClearStep == last'.op = "clear" /\ <<last, cache>>' # <<last, cache>>

\* The entries a clear is to delete: all of them, or those older than the
\* threshold.
OlderThan(older) ==
    IF older = NoThreshold THEN DOMAIN cache
    ELSE { k \in DOMAIN cache : now - cache[k].mtime > older }

\* C21: a clear deletes every entry when it has no threshold, else exactly
\* the entries older than the threshold, leaves the others as they were and
\* returns the number deleted; a fetch that follows a clear without
\* threshold misses, and a fetch that follows a clear finds every entry the
\* clear left and that has not expired, with its content.
C21_Clear ==
    [][ /\ ClearStep
           => /\ DOMAIN cache' = DOMAIN cache \ OlderThan(last'.older)
              /\ \A k \in DOMAIN cache' : cache'[k] = cache[k]
              /\ last'.count = Cardinality(OlderThan(last'.older))
        /\ (last.op = "clear" /\ FetchStep /\ Accepted(last'.url))
           => LET k == GetCacheFilename(last'.url) IN
              /\ last.older = NoThreshold => last'.got = None /\ last'.net = 1
              /\ (k \in DOMAIN cache /\ now - cache[k].mtime <= cache_expiry_days)
                     => /\ last'.net = 0
                        /\ last'.result = cache[k].game_data ]_vars

\* C21 witness: a clear with threshold 1 has deleted one entry and left a
\* younger one.
C21_Witness ==
    /\ last.op = "clear" /\ last.older = 1 /\ last.count = 1
    /\ Cardinality(DOMAIN cache) = 1

CounterNames == {"hits", "misses", "expired", "new_fetches"}

\* C22: in every step no counter decreases, a fetch of an accepted locator
\* adds one to exactly one of hits and misses, and new_fetches <= misses
\* and expired <= misses hold after it.
C22_Counters ==
    [][ /\ \A f \in CounterNames : cache_stats'[f] >= cache_stats[f]
        /\ (FetchStep /\ Accepted(last'.url))
           => \/ /\ cache_stats'.hits = cache_stats.hits + 1
                 /\ cache_stats'.misses = cache_stats.misses
              \/ /\ cache_stats'.hits = cache_stats.hits
                 /\ cache_stats'.misses = cache_stats.misses + 1
        /\ cache_stats'.new_fetches <= cache_stats'.misses
        /\ cache_stats'.expired <= cache_stats'.misses ]_vars

\* C22 witness: after a hit and a clear the counters are read, one hit, one
\* miss and one new fetch.
C22_Witness ==
    /\ last.op = "stats"
    /\ last.stats.hits = 1 /\ last.stats.misses = 1
    /\ last.stats.new_fetches = 1
    /\ cache = <<>>

\* C24: a fetch makes at most one HTTP GET; when the GET times out or the
\* transport fails, the one GET has been made and the call returns None.
C24_NoRetry ==
    [][ FetchStep
        => /\ last'.net \in {0, 1}
           /\ last'.page.status \in {"timeout", "connection_error"}
                  => last'.net = 1 /\ last'.result = None ]_vars

\* C24 witness: a fetch whose HTTP GET timed out has returned.
C24_Witness ==
    /\ last.op = "fetch" /\ last.page.status = "timeout"
    /\ last.net = 1 /\ last.result = None
    /\ cache_stats.misses = 1

\* C29: a fetch that returns what the cache holds read it from an entry no
\* older than the expiry period; a fetch that finds an entry older than
\* that makes the HTTP GET and, when it returns None, leaves no entry for
\* the key, else leaves the entry it has just written.
C29_NoStaleServe ==
    [][ (FetchStep /\ Accepted(last'.url))
        => LET k == GetCacheFilename(last'.url) IN
           /\ (last'.net = 0 /\ last'.result # None)
                  => /\ k \in DOMAIN cache
                     /\ now - cache[k].mtime <= cache_expiry_days
                     /\ last'.result = cache[k].game_data
           /\ (k \in DOMAIN cache /\ now - cache[k].mtime > cache_expiry_days)
                  => /\ last'.net = 1
                     /\ last'.result = None => k \notin DOMAIN cache'
                     /\ last'.result # None
                            => /\ k \in DOMAIN cache'
                               /\ cache'[k].mtime = now
                               /\ cache'[k].game_data = last'.result
                               /\ last'.result = last'.page.props ]_vars

\* C29 witness: a fetch has found an expired entry, its HTTP GET has failed,
\* and the key has no entry.
C29_Witness ==
    /\ last.op = "fetch" /\ Accepted(last.url)
    /\ last.net = 1 /\ last.result = None
    /\ cache_stats.expired = 1
    /\ GetCacheFilename(last.url) \notin DOMAIN cache

\* C23: with storage that fails, a fetch whose read of the entry fails goes
\* on as after a miss (one miss counted, the HTTP GET made, its detail
\* returned); a fetch whose write of the entry fails returns the detail it
\* fetched; a fetch returns a detail or None and a clear returns the number
\* of entries it removed, the others left as they were.
C23_StorageFailures ==
    [][ /\ (FetchStep /\ last'.io = "read")
           => /\ last'.got = None /\ last'.net = 1
              /\ cache_stats'.misses = cache_stats.misses + 1
              /\ cache_stats'.hits = cache_stats.hits
              /\ last'.page.status = "ok" => last'.result = last'.page.props
        /\ (FetchStep /\ last'.io \in {"open", "dump"} /\ last'.net = 1
              /\ last'.page.status = "ok")
           => last'.result = last'.page.props
        /\ FetchStep => last'.result \in Details \cup {None}
        /\ ClearStep
           => /\ last'.count = Cardinality(DOMAIN cache \ DOMAIN cache')
              /\ \A k \in DOMAIN cache' : k \in DOMAIN cache /\ cache'[k] = cache[k]
      ]_vars

\* C23 witness: a fetch has found an entry, failed to read it, and returned
\* the detail of its HTTP GET.
C23_Witness ==
    /\ last.op = "fetch" /\ last.io = "read" /\ last.net = 1
    /\ last.result = "d1"
    /\ cache_stats.misses = 2 /\ cache_stats.new_fetches = 2

\* The marks and bulls of a sequence of tokens when those that are no darts
\* of the notation add nothing.
RECURSIVE TokenSum(_, _)
TokenSum(darts, i) ==
    IF i > Len(darts) THEN [marks |-> 0, bulls |-> 0]
    ELSE LET rest == TokenSum(darts, i + 1)
             dart == IF darts[i] \in Darts THEN <<darts[i]>> ELSE <<>>
         IN  [marks |-> GrammarSum(dart, 1).marks + rest.marks,
              bulls |-> GrammarSum(dart, 1).bulls + rest.bulls]

\* C25: a token that is neither a bull token nor a ring S, D or T followed
\* by a number of 15..20 adds 0 marks and 0 bulls, whatever its suffix: a
\* turn score parses to the sums of its other tokens.
C25_NonMatching ==
    (call.fn = "parse_text" /\ Returned(call)) =>
        call.out = TokenSum(call.darts, 1)

(***************************************************************************)
(* One run over a file.                                                    *)
(***************************************************************************)
\* The matches the report URLs of the run refer to.
MatchesOf(urls) ==
    { id \in MatchIds : \E i \in DOMAIN urls : urls[i] \in ShapesOf(id) }

\* C28: after a run, the Cricket QP of each player is at most the sum, over
\* the matches the report URLs refer to, of the player's Cricket QP in the
\* match counted once.
C28_CountedOnce ==
    (call.fn = "process_urls" /\ Returned(call)) =>
        \A name \in DOMAIN call.out :
            call.out[name] <=
                GetCricketQpsForPlayer(name,
                    CricketEnhancedQP(CricketQpData(MatchesOf(call.unique_urls))))

(***************************************************************************)
(* Wins, losses and games of a stat line.                                  *)
(***************************************************************************)
\* Every leg of the player carries a match and a set identifier.
AllLegsIdentified ==
    /\ call.team_df.has_set_columns
    /\ LegsOfPlayer # {}
    /\ \A i \in LegsOfPlayer : /\ call.team_df.rows[i].report_url # NaN
                                /\ call.team_df.rows[i].set_no # NaN

\* The legs of each (match, set) pair of the player are of one discipline
\* and one format.
OneTypePerSet ==
    \A i, j \in LegsOfPlayer :
        (/\ call.team_df.rows[i].report_url = call.team_df.rows[j].report_url
         /\ call.team_df.rows[i].set_no = call.team_df.rows[j].set_no)
            => /\ call.team_df.rows[i].game_name = call.team_df.rows[j].game_name
               /\ call.team_df.rows[i].pf = call.team_df.rows[j].pf

\* C27 as stated: for a player whose legs all carry a match and a set
\* identifier, wins plus losses are at most the games played.
C27_WinsLossesWithinGames ==
    (StatsReturned /\ AllLegsIdentified) =>
        call.out.total_w + call.out.total_l <= call.out.games

\* C27: for a player whose legs all carry a match and a set identifier and
\* whose every (match, set) pair has legs of one discipline and format, wins
\* plus losses are at most the games played, so the win term of the rating,
\* 2 * wins / games, is at most 2.
C27_WinsLossesWithinGames_OneType ==
    (StatsReturned /\ AllLegsIdentified /\ OneTypePerSet) =>
        /\ call.out.total_w + call.out.total_l <= call.out.games
        /\ 2 * call.out.total_w <= 2 * call.out.games

\* C27 witness: a line of two games, each decided, in sets of one type.
C27_Witness ==
    /\ StatsReturned /\ AllLegsIdentified /\ OneTypePerSet
    /\ call.out.games = 2
    /\ call.out.total_w + call.out.total_l = 2


(***************************************************************************)
(* Keys and matches.                                                       *)
(***************************************************************************)
\* The matchId of an accepted locator: the path segment that follows
\* /games/ or /history/report/match/.
MatchIdOf(url) == url.segs[Len(url.segs)]

\* The detail of a match on the site.
DetailOf(id) == MatchPage(CanonicalUrl(id)).props

\* C30: two accepted locators with different matchIds derive different
\* cache keys, and a fetch served from the cache returns the detail of the
\* match of its locator, never that of another match.
C30_NoCrossMatch ==
    /\ \A k \in DOMAIN cache : \A v \in KeyLocators :
           MatchIdOf(v) # MatchIdOf(cache[k].url) => GetCacheFilename(v) # k
    /\ (last.op = "fetch" /\ Accepted(last.url) /\ last.net = 0
            /\ last.result # None)
           => last.result = DetailOf(MatchIdOf(last.url))


(***************************************************************************)
(* Two fetches at the same time.                                           *)
(***************************************************************************)
BothDone == call.fn = "race" /\ \A p \in Fetchers : call.procs[p].pc = "done"

\* C26: when two fetches of one key run at the same time on a cache without
\* an entry for it, both return a valid detail, the cache ends holding one
\* whole entry, that of the fetch that wrote last, and a get at any time
\* returns None or a whole detail, never a mix or a part.
C26_LastWriteWins ==
    /\ BothDone =>
           /\ \A p \in Fetchers : call.procs[p].result \in Details
           /\ putLog # <<>> =>
                  cache[GetCacheFilename(CanonicalUrl("m1"))]
                      = EntryText(RaceUrl(putLog[Len(putLog)]), "d1")
    /\ (call.fn = "race" /\ last.op = "get") => last.got \in Details \cup {None}


=========================================================================
